---- MODULE Spec2Model ----
(***************************************************************************)
(* Model of the process-snapshot ingestion service: the Unix and Windows   *)
(* parsers, the parser factory, DataOrganizer (stage in Redis, deferred    *)
(* materialisation into SQL and Redis rollups) and the HTTP ingest handler. *)
(*                                                                         *)
(* Python strings are sequences of one-character strings, so that strip,   *)
(* split, startswith, slicing and replace are computed as Python computes  *)
(* them.  Floats are fixed-point numbers counted in tenths.                *)
(***************************************************************************)
EXTENDS Integers, Sequences, FiniteSets, TLC

(***************************************************************************)
(* Python string primitives                                                *)
(***************************************************************************)
NL == "\n"

IsSpace(c) == c \in {" ", NL}

Digits == <<"0", "1", "2", "3", "4", "5", "6", "7", "8", "9">>

IsDigit(c) == \E i \in 1..10 : Digits[i] = c

DigitVal(c) == (CHOOSE i \in 1..10 : Digits[i] = c) - 1

\* s[a:] with a 0-based offset; out-of-range offsets give "" as in Python
SliceFrom(s, a) == IF a >= Len(s) THEN <<>> ELSE SubSeq(s, a + 1, Len(s))

\* s[a:b] with 0-based offsets, 0 <= a, 0 <= b
Slice(s, a, b) ==
    LET e == IF b > Len(s) THEN Len(s) ELSE b
    IN  IF a >= e THEN <<>> ELSE SubSeq(s, a + 1, e)

RECURSIVE LStrip(_)
LStrip(s) == IF s # <<>> /\ IsSpace(Head(s)) THEN LStrip(Tail(s)) ELSE s

RECURSIVE RStrip(_)
RStrip(s) ==
    IF s # <<>> /\ IsSpace(s[Len(s)]) THEN RStrip(SubSeq(s, 1, Len(s) - 1)) ELSE s

\* str.strip()
Strip(s) == RStrip(LStrip(s))

\* str.startswith(p)
StartsWith(s, p) == Len(s) >= Len(p) /\ SubSeq(s, 1, Len(p)) = p

\* str.split(sep) for a one-character sep: empty pieces are kept
RECURSIVE SplitOn(_, _)
SplitOn(s, sep) ==
    IF \A i \in 1..Len(s) : s[i] # sep
    THEN <<s>>
    ELSE LET k == CHOOSE i \in 1..Len(s) :
                      s[i] = sep /\ \A j \in 1..(i - 1) : s[j] # sep
         IN  <<SubSeq(s, 1, k - 1)>> \o SplitOn(SubSeq(s, k + 1, Len(s)), sep)

\* str.splitlines(): no piece for the empty string or after a final newline
SplitLines(s) ==
    IF s = <<>> THEN <<>>
    ELSE IF s[Len(s)] = NL THEN SplitOn(SubSeq(s, 1, Len(s) - 1), NL)
    ELSE SplitOn(s, NL)

\* str.split(): pieces between runs of whitespace, no empty piece
RECURSIVE SplitWs(_)
SplitWs(s) ==
    LET t == LStrip(s)
    IN  IF t = <<>> THEN <<>>
        ELSE LET n == IF \E i \in 1..Len(t) : IsSpace(t[i])
                      THEN (CHOOSE i \in 1..Len(t) :
                               IsSpace(t[i]) /\ \A j \in 1..(i - 1) : ~IsSpace(t[j])) - 1
                      ELSE Len(t)
             IN  <<SubSeq(t, 1, n)>> \o SplitWs(SubSeq(t, n + 1, Len(t)))

\* re.split(r'\s+', s) for an s that was stripped: "" gives [""]
ReSplitWs(s) == IF s = <<>> THEN <<(<<>>)>> ELSE SplitWs(s)

\* sep.join(parts)
RECURSIVE Join(_, _)
Join(parts, sep) ==
    IF parts = <<>> THEN <<>>
    ELSE IF Len(parts) = 1 THEN parts[1]
    ELSE parts[1] \o sep \o Join(Tail(parts), sep)

\* str.replace(c, "") for a one-character c
RECURSIVE Remove(_, _)
Remove(s, c) ==
    IF s = <<>> THEN <<>>
    ELSE IF Head(s) = c THEN Remove(Tail(s), c)
    ELSE <<Head(s)>> \o Remove(Tail(s), c)

UpperCase == <<"A", "B", "C", "D", "E", "F", "G", "H", "I", "J", "K", "L", "M",
               "N", "O", "P", "Q", "R", "S", "T", "U", "V", "W", "X", "Y", "Z">>

LowerCase == <<"a", "b", "c", "d", "e", "f", "g", "h", "i", "j", "k", "l", "m",
               "n", "o", "p", "q", "r", "s", "t", "u", "v", "w", "x", "y", "z">>

LowerChar(c) ==
    IF \E i \in DOMAIN UpperCase : UpperCase[i] = c
    THEN LowerCase[CHOOSE i \in DOMAIN UpperCase : UpperCase[i] = c]
    ELSE c

\* str.lower()
Lower(s) == [i \in DOMAIN s |-> LowerChar(s[i])]

RECURSIVE DecVal(_)
DecVal(s) == IF s = <<>> THEN 0 ELSE 10 * DecVal(SubSeq(s, 1, Len(s) - 1)) + DigitVal(s[Len(s)])

\* int(s) succeeds: digits, possibly inside whitespace
IsInt(s) == LET t == Strip(s) IN t # <<>> /\ \A i \in 1..Len(t) : IsDigit(t[i])

IntVal(s) == DecVal(Strip(s))

\* float(s) succeeds: digits with at most one point, possibly inside whitespace
IsFloat(s) ==
    LET t == Strip(s)
    IN  /\ \E i \in 1..Len(t) : IsDigit(t[i])
        /\ \A i \in 1..Len(t) : IsDigit(t[i]) \/ t[i] = "."
        /\ Cardinality({i \in 1..Len(t) : t[i] = "."}) <= 1

\* float(s), counted in tenths (the inputs carry at most one decimal digit)
FloatVal(s) ==
    LET t == Strip(s)
        parts == SplitOn(t, ".")
        frac == IF Len(parts) = 2 /\ parts[2] # <<>> THEN DigitVal(parts[2][1]) ELSE 0
    IN  10 * DecVal(parts[1]) + frac

(***************************************************************************)
(* String literals of the program                                          *)
(***************************************************************************)
\* "USER"
S_USER ==
    <<"U", "S", "E", "R">>

\* "N/A"
S_NA ==
    <<"N", "/", "A">>

\* "linux"
OsLinux ==
    <<"l", "i", "n", "u", "x">>

\* "unix"
OsUnix ==
    <<"u", "n", "i", "x">>

\* "mac"
OsMac ==
    <<"m", "a", "c">>

\* "windows"
OsWindows ==
    <<"w", "i", "n", "d", "o", "w", "s">>

(***************************************************************************)
(* Parsers.  A parse result is [ok, err, recs]: the records on success,    *)
(* the exception raised otherwise.                                         *)
(***************************************************************************)
UnixPsFields ==
    [USER |-> 0, PID |-> 1, CPU |-> 2, MEM |-> 3, VSZ |-> 4, RSS |-> 5,
     TTY |-> 6, STAT |-> 7, START |-> 8, TIME |-> 9, COMMAND |-> 10]

WindowsTasklistFields ==
    [IMAGE_NAME |-> 0, PID |-> 1, SESSION_NAME |-> 2, SESSION |-> 3, MEM_USAGE |-> 4]

ParseOk(recs) == [ok |-> TRUE, err |-> "", recs |-> recs]

ParseErr(e) == [ok |-> FALSE, err |-> e, recs |-> <<>>]

\* ProcessData(...) built from one split ps line; Field(k) is fields[k]
UnixRecord(fields) ==
    LET Field(k) == fields[k + 1]
    IN  [user       |-> Field(UnixPsFields.USER),
         pid        |-> IntVal(Field(UnixPsFields.PID)),
         cpu_usage  |-> FloatVal(Field(UnixPsFields.CPU)),
         mem_usage  |-> FloatVal(Field(UnixPsFields.MEM)),
         vsz        |-> IntVal(Field(UnixPsFields.VSZ)),
         rss        |-> IntVal(Field(UnixPsFields.RSS)),
         tty        |-> Field(UnixPsFields.TTY),
         stat       |-> Field(UnixPsFields.STAT),
         start_time |-> Field(UnixPsFields.START),
         duration   |-> Field(UnixPsFields.TIME),
         command    |-> Join(SliceFrom(fields, UnixPsFields.COMMAND), <<" ">>)]

\* the conversions of one ps line raise nothing
UnixNumbersOk(fields) ==
    LET Field(k) == fields[k + 1]
    IN  /\ IsInt(Field(UnixPsFields.PID))
        /\ IsFloat(Field(UnixPsFields.CPU))
        /\ IsFloat(Field(UnixPsFields.MEM))
        /\ IsInt(Field(UnixPsFields.VSZ))
        /\ IsInt(Field(UnixPsFields.RSS))

\* the first line the parser takes as the header
UnixHeaderOf(lines) == lines[1]

\* the field count a ps line must have
UnixFieldCountOk(fields) == Len(fields) = Cardinality(DOMAIN UnixPsFields)

\* UnixParser.parse
UnixParse(content) ==
    LET lines  == Tail(SplitOn(Strip(content), NL))
        Fields(i) == ReSplitWs(Strip(lines[i]))
    IN  IF lines = <<>> THEN ParseErr("HTTPException")
        ELSE IF ~StartsWith(UnixHeaderOf(lines), S_USER) THEN ParseErr("HTTPException")
        ELSE IF \E i \in 1..Len(lines) :
                    ~UnixFieldCountOk(Fields(i)) \/ ~UnixNumbersOk(Fields(i))
             THEN ParseErr("HTTPException")
        ELSE ParseOk([i \in 1..Len(lines) |-> UnixRecord(Fields(i))])

\* the offsets at which a run of "=" starts in the separator line
RECURSIVE ColumnPositions(_, _)
ColumnPositions(separator, i) ==
    IF i >= Len(separator) THEN <<>>
    ELSE (IF separator[i + 1] = "=" /\ (i = 0 \/ separator[i] # "=")
          THEN <<i>> ELSE <<>>) \o ColumnPositions(separator, i + 1)

\* index (0-based) of the first line whose stripped form starts with "=", else 0
SeparatorLineIndex(lines) ==
    IF \E i \in 1..Len(lines) : StartsWith(Strip(lines[i]), <<"=">>)
    THEN (CHOOSE i \in 1..Len(lines) :
             /\ StartsWith(Strip(lines[i]), <<"=">>)
             /\ \A j \in 1..(i - 1) : ~StartsWith(Strip(lines[j]), <<"=">>)) - 1
    ELSE 0

\* the fields of one tasklist line; the last one raises IndexError when empty
WindowsFields(line, cp) ==
    [i \in 1..(Len(cp) - 1) |-> Strip(Slice(line, cp[i], cp[i + 1]))]
        \o <<SplitWs(SliceFrom(line, cp[Len(cp)]))[1]>>

WindowsFieldsOk(line, cp) ==
    /\ cp # <<>>
    /\ SplitWs(SliceFrom(line, cp[Len(cp)])) # <<>>
    /\ Len(cp) > WindowsTasklistFields.MEM_USAGE

\* a variant that leaves the thousands separators in the text
WindowsMemUsagePlain(field) ==
    LET cleaned == Remove(field, "K")
    IN  IF IsFloat(cleaned) THEN FloatVal(cleaned) ELSE 0

\* float(mem_usage.replace(',', '').replace('K', '')), 0.0 when that raises
WindowsMemUsage(field) ==
    LET cleaned == Remove(Remove(field, ","), "K")
    IN  IF IsFloat(cleaned) THEN FloatVal(cleaned) ELSE 0

WindowsRecord(fields) ==
    LET Field(k) == fields[k + 1]
    IN  [user       |-> S_NA,
         pid        |-> IntVal(Field(WindowsTasklistFields.PID)),
         cpu_usage  |-> 0,
         mem_usage  |-> WindowsMemUsage(Field(WindowsTasklistFields.MEM_USAGE)),
         vsz        |-> 0,
         rss        |-> 0,
         tty        |-> Field(WindowsTasklistFields.SESSION_NAME),
         stat       |-> S_NA,
         start_time |-> S_NA,
         duration   |-> S_NA,
         command    |-> Field(WindowsTasklistFields.IMAGE_NAME)]

\* WindowsParser.parse
WindowsParse(content) ==
    LET lines == SplitLines(content)
        k     == SeparatorLineIndex(lines)
        separator  == lines[k + 1]
        data_lines == SliceFrom(lines, k + 1)
        cp    == ColumnPositions(separator, 0)
    IN  IF lines = <<>> THEN ParseErr("IndexError")
        ELSE IF \E i \in 1..Len(data_lines) : ~WindowsFieldsOk(data_lines[i], cp)
             THEN ParseErr("IndexError")
        ELSE IF \E i \in 1..Len(data_lines) :
                    ~IsInt(WindowsFields(data_lines[i], cp)[WindowsTasklistFields.PID + 1])
             THEN ParseErr("ValueError")
        ELSE ParseOk([i \in 1..Len(data_lines) |->
                         WindowsRecord(WindowsFields(data_lines[i], cp))])

\* ParserFactory.get_parser: which parser an os_type tag selects
GetParser(os_type) ==
    IF Lower(os_type) \in {OsLinux, OsUnix, OsMac} THEN "UnixParser"
    ELSE IF Lower(os_type) = OsWindows THEN "WindowsParser"
    ELSE "ValueError"

(***************************************************************************)
(* Inputs: the lines the listings are made of                              *)
(***************************************************************************)
\* "Linux"
OsLinuxCap ==
    <<"L", "i", "n", "u", "x">>

\* "bsd"
OsBsd ==
    <<"b", "s", "d">>

\* "USER PID %CPU %MEM VSZ RSS TTY STAT START TIME COMMAND"
PsHeader ==
    <<"U", "S", "E", "R", " ", "P", "I", "D", " ", "%", "C", "P",
      "U", " ", "%", "M", "E", "M", " ", "V", "S", "Z", " ", "R",
      "S", "S", " ", "T", "T", "Y", " ", "S", "T", "A", "T", " ",
      "S", "T", "A", "R", "T", " ", "T", "I", "M", "E", " ", "C",
      "O", "M", "M", "A", "N", "D">>

\* "This is not valid process data"
PsGarbage ==
    <<"T", "h", "i", "s", " ", "i", "s", " ", "n", "o", "t", " ",
      "v", "a", "l", "i", "d", " ", "p", "r", "o", "c", "e", "s",
      "s", " ", "d", "a", "t", "a">>

\* "root 1 0.5 1.0 10 5 ? S 10:00 0:01 init"
PsRoot ==
    <<"r", "o", "o", "t", " ", "1", " ", "0", ".", "5", " ", "1",
      ".", "0", " ", "1", "0", " ", "5", " ", "?", " ", "S", " ",
      "1", "0", ":", "0", "0", " ", "0", ":", "0", "1", " ", "i",
      "n", "i", "t">>

\* "USER 2 2.0 0.5 20 8 ? R 10:01 0:02 bash"
PsUser ==
    <<"U", "S", "E", "R", " ", "2", " ", "2", ".", "0", " ", "0",
      ".", "5", " ", "2", "0", " ", "8", " ", "?", " ", "R", " ",
      "1", "0", ":", "0", "1", " ", "0", ":", "0", "2", " ", "b",
      "a", "s", "h">>

\* "root 3 1.5 2.0 30 9 ? S 10:02 0:03 python  app.py"
PsArgs ==
    <<"r", "o", "o", "t", " ", "3", " ", "1", ".", "5", " ", "2",
      ".", "0", " ", "3", "0", " ", "9", " ", "?", " ", "S", " ",
      "1", "0", ":", "0", "2", " ", "0", ":", "0", "3", " ", "p",
      "y", "t", "h", "o", "n", " ", " ", "a", "p", "p", ".", "p",
      "y">>

\* "root 4 0.0 0.0 40 ? S 10:03 0:00 sh"
PsShort ==
    <<"r", "o", "o", "t", " ", "4", " ", "0", ".", "0", " ", "0",
      ".", "0", " ", "4", "0", " ", "?", " ", "S", " ", "1", "0",
      ":", "0", "3", " ", "0", ":", "0", "0", " ", "s", "h">>

\* "root x 0.0 0.0 50 7 ? S 10:04 0:00 sh"
PsBadPid ==
    <<"r", "o", "o", "t", " ", "x", " ", "0", ".", "0", " ", "0",
      ".", "0", " ", "5", "0", " ", "7", " ", "?", " ", "S", " ",
      "1", "0", ":", "0", "4", " ", "0", ":", "0", "0", " ", "s",
      "h">>

\* "Name  PID Ses # Mem"
TlHeader ==
    <<"N", "a", "m", "e", " ", " ", "P", "I", "D", " ", "S", "e",
      "s", " ", "#", " ", "M", "e", "m">>

\* "===== === === = ======="
TlSeparator ==
    <<"=", "=", "=", "=", "=", " ", "=", "=", "=", " ", "=", "=",
      "=", " ", "=", " ", "=", "=", "=", "=", "=", "=", "=">>

\* "init    1 Svc 0 5,120 K"
TlInit ==
    <<"i", "n", "i", "t", " ", " ", " ", " ", "1", " ", "S", "v",
      "c", " ", "0", " ", "5", ",", "1", "2", "0", " ", "K">>

\* "Idle    0 Svc 0 N/A"
TlIdle ==
    <<"I", "d", "l", "e", " ", " ", " ", " ", "0", " ", "S", "v",
      "c", " ", "0", " ", "N", "/", "A">>

\* "calc    x Con 1 9 K"
TlBadPid ==
    <<"c", "a", "l", "c", " ", " ", " ", " ", "x", " ", "C", "o",
      "n", " ", "1", " ", "9", " ", "K">>

\* "sh     12"
TlShort ==
    <<"s", "h", " ", " ", " ", " ", " ", "1", "2">>

\* "svc     4 Svc 0 -"
TlDash ==
    <<"s", "v", "c", " ", " ", " ", " ", " ", "4", " ", "S", "v",
      "c", " ", "0", " ", "-">>

(***************************************************************************)
(* Bounds of the model                                                     *)
(***************************************************************************)
\* ingest calls in one run
MaxIngest == 2

\* last instant of the wall clock, in ticks
MaxTick == 2

\* clock ticks in one second: strftime('%Y%m%d%H%M%S') cuts the rest off
TicksPerSecond == 2

\* instants of meta_info.timestamp in one calendar day
TsPerDay == 2

\* data lines in a generated listing
MaxDataLines == 2

\* records in a generated batch: more than the rollup's top lists keep
MaxRows == 12

\* names in a generated aggregation list
MaxAggs == 4

\* query calls in one run
MaxQuery == 2

\* calls of _get_aggregated_data, made one by one, that find their key cached
MaxHits == 1

\* calls of _get_aggregated_data, made one by one, that find the cache full
MaxEvictions == 3

\* query calls in one run next to the overwrite of a cached rollup
MaxStaleQuery == 4

(***************************************************************************)
(* Inputs: listings, metadata and request payloads                         *)
(***************************************************************************)
RECURSIVE SeqsUpTo(_, _)
SeqsUpTo(S, n) ==
    IF n = 0 THEN {<<>>}
    ELSE LET shorter == SeqsUpTo(S, n - 1)
         IN  shorter \cup {Append(q, x) : q \in {r \in shorter : Len(r) = n - 1}, x \in S}

\* a text file: its lines, each ended by a newline
Text(lines) == Join(lines, <<NL>>) \o <<NL>>

PsDataLines == {PsRoot, PsUser, PsArgs, PsShort, PsBadPid}

TlDataLines == {TlInit, TlIdle, TlBadPid, TlShort, TlDash}

UnixContents ==
    {Text(<<first>> \o body) :
        first \in {PsHeader, PsGarbage}, body \in SeqsUpTo(PsDataLines, MaxDataLines)}

WindowsContents ==
    {Text(head \o body) :
        head \in {<<TlHeader, TlSeparator>>, <<TlHeader>>},
        body \in SeqsUpTo(TlDataLines, MaxDataLines)}

Contents == UnixContents \cup WindowsContents

\* "m1", "id1", "id2"
MachineName == <<"m", "1">>

MachineId1 == <<"i", "d", "1">>

MachineId2 == <<"i", "d", "2">>

MetaA ==
    [timestamp |-> 0, machine_name |-> MachineName, machine_id |-> MachineId1,
     os_type |-> OsLinux]

\* the same calendar day and os_type as MetaA, another instant and machine
MetaB ==
    [timestamp |-> TsPerDay - 1, machine_name |-> MachineName, machine_id |-> MachineId2,
     os_type |-> OsLinux]

\* the next calendar day, another os_type
MetaC ==
    [timestamp |-> TsPerDay, machine_name |-> MachineName, machine_id |-> MachineId1,
     os_type |-> OsWindows]

\* the day of MetaA with the os_type "unix", and with the os_type "Linux"
MetaUnix ==
    [timestamp |-> 0, machine_name |-> MachineName, machine_id |-> MachineId1,
     os_type |-> OsUnix]

MetaLinuxCap ==
    [timestamp |-> 0, machine_name |-> MachineName, machine_id |-> MachineId2,
     os_type |-> OsLinuxCap]

\* a meta_info without its timestamp
MetaNoTimestamp ==
    [machine_name |-> MachineName, machine_id |-> MachineId1, os_type |-> OsLinux]

Payload(os, content, meta) == [os_type |-> os, content |-> content, meta_info |-> meta]

\* the request bodies the ingest endpoint is called with
Payloads ==
    <<Payload(OsUnix, Text(<<PsGarbage, PsUser>>), MetaA),
      Payload(OsUnix, Text(<<PsGarbage, PsUser, PsRoot>>), MetaB),
      Payload(OsLinuxCap, Text(<<PsGarbage, PsUser, PsRoot>>), MetaC),
      Payload(OsWindows, Text(<<TlHeader, TlSeparator, TlInit, TlIdle>>), MetaA),
      Payload(OsWindows, Text(<<TlHeader, TlSeparator, TlInit>>), MetaC),
      Payload(OsWindows, Text(<<PsGarbage>>), MetaB),
      Payload(OsUnix, Text(<<PsHeader, PsRoot>>), MetaA),
      Payload(OsMac, Text(<<PsHeader, PsUser, PsArgs>>), MetaA),
      Payload(OsUnix, Text(<<PsGarbage>>), MetaA),
      Payload(OsWindows, Text(<<TlHeader, TlSeparator, TlBadPid>>), MetaA),
      Payload(OsBsd, Text(<<PsGarbage, PsUser>>), MetaA),
      Payload(<<>>, Text(<<PsGarbage, PsUser>>), MetaA),
      Payload(OsUnix, <<>>, MetaA),
      Payload(OsUnix, Text(<<PsGarbage, PsUser>>), MetaNoTimestamp),
      Payload(OsUnix, Text(<<PsHeader, PsUser, PsUser>>), MetaUnix),
      Payload(OsLinuxCap, Text(<<PsHeader, PsUser, PsRoot>>), MetaLinuxCap)>>

(***************************************************************************)
(* State                                                                   *)
(***************************************************************************)
VARIABLES
    clock,      \* the wall clock, in ticks
    staging,    \* Redis: batch_id -> staged batch
    rollups,    \* Redis: partition key -> rollup (the "agg_" keys)
    durable,    \* SQL table process_data: the rows, in insert order
    tasks,      \* the background materialize task of each successful ingest call
                \* (after: history, the tasks that had returned when it started)
    calls,      \* history: what each ingest call was given and returned
    rollupBy,   \* history: the task that last wrote each rollup, and its rows
    parseIn,    \* the text last handed to a parser
    parseOut,   \* what that parser returned
    plan,       \* what the planner made of the query last handed to it
    cache,      \* lru_cache of _get_aggregated_data: <<key, value>>, oldest use first
    queries,    \* history: what each query call was given, read and returned
    lookup      \* history: the last call of _get_aggregated_data made on its own,
                \* and how many of these calls hit, evicted and took a new key

vars ==
    <<clock, staging, rollups, durable, tasks, calls, rollupBy, parseIn, parseOut,
      plan, cache, queries, lookup>>

pipelineVars == <<clock, staging, rollups, durable, tasks, calls, rollupBy>>

parseVars == <<parseIn, parseOut>>

queryVars == <<plan, cache, queries, lookup>>

\* Python's None, and SQL's NULL
None == <<>>

(***************************************************************************)
(* DataOrganizer: staging                                                  *)
(***************************************************************************)
\* ProcessData.to_dict
ToDict(p) ==
    [id           |-> None,
     command      |-> p.command,
     pid          |-> p.pid,
     vsz          |-> p.vsz,
     rss          |-> p.rss,
     cpu_usage    |-> p.cpu_usage,
     mem_usage    |-> p.mem_usage,
     tty          |-> p.tty,
     stat         |-> p.stat,
     start_time   |-> p.start_time,
     user         |-> p.user,
     timestamp    |-> None,
     machine_name |-> None,
     machine_id   |-> None,
     os_type      |-> None]

\* f"batch_{pd.Timestamp.now().strftime('%Y%m%d%H%M%S')}": the second of `now`
BatchId(now) == now \div TicksPerSecond

MetaKeys == {"timestamp", "machine_name", "machine_id", "os_type"}

\* the value written under the batch_id
DataToStore(meta_info, process_data_list) ==
    [meta_info    |-> [k \in MetaKeys |-> meta_info[k]],
     process_data |-> [i \in DOMAIN process_data_list |-> ToDict(process_data_list[i])]]

\* redis_client.set(key, value)
RedisSet(store, key, value) ==
    [k \in DOMAIN store \cup {key} |-> IF k = key THEN value ELSE store[k]]

\* a variant that leaves the key in place
RedisDeleteNothing(store, key) == store

\* redis_client.delete(key)
RedisDelete(store, key) == [k \in DOMAIN store \ {key} |-> store[k]]

\* the parser's result for a request, or the exception raised before it
ParseRequest(data) ==
    IF data.os_type = <<>> \/ data.content = <<>> THEN ParseErr("ValueError")
    ELSE IF GetParser(data.os_type) = "UnixParser" THEN UnixParse(data.content)
    ELSE IF GetParser(data.os_type) = "WindowsParser" THEN WindowsParse(data.content)
    ELSE ParseErr("ValueError")

\* receive_and_parse_data: [ok, err, recs] with KeyError for a meta_info key
\* that store_process_data_in_redis cannot read
ReceiveAndParse(data) ==
    LET parsed == ParseRequest(data)
    IN  IF ~parsed.ok THEN parsed
        ELSE IF ~(MetaKeys \subseteq DOMAIN data.meta_info) THEN ParseErr("KeyError")
        ELSE parsed

\* what each payload gives, computed once
Received == [i \in DOMAIN Payloads |-> ReceiveAndParse(Payloads[i])]

\* a variant that stages the batch although the parser raised
StagingAfterIngestEager(store, now, data, result) ==
    IF result.ok \/ result.err = "HTTPException"
    THEN RedisSet(store, BatchId(now), DataToStore(data.meta_info, result.recs))
    ELSE store

\* the staging store after an ingest call
StagingAfterIngest(store, now, data, result) ==
    IF result.ok
    THEN RedisSet(store, BatchId(now), DataToStore(data.meta_info, result.recs))
    ELSE store

\* the background tasks after an ingest call: one more when it succeeded
TasksAfterIngest(ts, call, now, result) ==
    IF result.ok
    THEN [t \in DOMAIN ts \cup {call} |->
            IF t = call
            THEN [batch_id |-> BatchId(now), pc |-> "get", df |-> <<>>, outcome |-> "",
                  after |-> {}]
            ELSE ts[t]]
    ELSE ts

(***************************************************************************)
(* DataOrganizer: materialisation                                          *)
(***************************************************************************)
\* dict.update
Update(d, other) ==
    [k \in DOMAIN d \cup DOMAIN other |-> IF k \in DOMAIN other THEN other[k] ELSE d[k]]

\* the calendar day of an instant: dt.to_period('D')
PeriodDay(timestamp) == timestamp \div TsPerDay

\* date + '_' + os_type; the date has a fixed width, so the pair is the string
PartitionKey(timestamp, os_type) == <<PeriodDay(timestamp), os_type>>

\* the columns of pd.DataFrame(rows): every key of every row
DataFrameColumns(rows) == UNION {DOMAIN rows[i] : i \in DOMAIN rows}

\* the staged records with meta_info merged into each
MergedRows(data) ==
    [i \in DOMAIN data.process_data |-> Update(data.process_data[i], data.meta_info)]

\* the frame with its partition_key column
DataFrame(data) ==
    [i \in DOMAIN data.process_data |->
        LET r == MergedRows(data)[i]
        IN  Update(r, [partition_key |-> PartitionKey(r.timestamp, r.os_type)])]

\* a variant without the check of the timestamp column
MaterializeReadUnchecked(store, batch_id) ==
    IF batch_id \notin DOMAIN store
    THEN [outcome |-> "no_data", df |-> <<>>]
    ELSE [outcome |-> "", df |-> DataFrame(store[batch_id])]

\* process_and_store_data up to the frame: how the call goes on, and the frame
MaterializeRead(store, batch_id) ==
    IF batch_id \notin DOMAIN store
    THEN [outcome |-> "no_data", df |-> <<>>]
    ELSE LET data == store[batch_id]
         IN  IF ~({"process_data", "meta_info"} \subseteq DOMAIN data)
             THEN [outcome |-> "missing_keys", df |-> <<>>]
             ELSE IF "timestamp" \notin DataFrameColumns(MergedRows(data))
             THEN [outcome |-> "no_timestamp", df |-> <<>>]
             ELSE [outcome |-> "", df |-> DataFrame(data)]

\* the mapped columns of models.ProcessData
ModelColumns ==
    {"id", "command", "pid", "vsz", "rss", "cpu_usage", "mem_usage", "tty", "stat",
     "start_time", "duration", "user", "timestamp", "machine_name", "machine_id",
     "os_type"}

\* one inserted row: unmapped keys are dropped, a None id is generated, a column
\* the mapping does not name is NULL
InsertedRow(r, id) ==
    [c \in ModelColumns |->
        IF c = "id" THEN id ELSE IF c \in DOMAIN r THEN r[c] ELSE None]

\* a variant that has sent no row when it returns
BulkInsertLater(table, df) == table

\* session.bulk_insert_mappings + commit
BulkInsert(table, df) ==
    table \o [i \in DOMAIN df |-> InsertedRow(df[i], Len(table) + i)]

\* a variant in which the rows sent before the failure stay
RollbackPartial(table, df) ==
    table \o [i \in {j \in DOMAIN df : j = 1} |-> InsertedRow(df[i], Len(table) + i)]

\* session.rollback after a failed insert
Rollback(table, df) == table

\* nlargest and [:10]
TopN == 10

RECURSIVE SumOf(_, _)
SumOf(rows, col) == IF rows = <<>> THEN 0 ELSE Head(rows)[col] + SumOf(Tail(rows), col)

\* a variant that takes the last of several equal values first
RECURSIVE NLargestKeepLast(_, _, _)
NLargestKeepLast(rows, n, col) ==
    IF n = 0 \/ rows = <<>> THEN <<>>
    ELSE LET i == CHOOSE j \in DOMAIN rows :
                      /\ \A k \in DOMAIN rows : rows[k][col] <= rows[j][col]
                      /\ \A k \in (j + 1)..Len(rows) : rows[k][col] < rows[j][col]
             rest == [k \in 1..(Len(rows) - 1) |-> IF k < i THEN rows[k] ELSE rows[k + 1]]
         IN  <<rows[i]>> \o NLargestKeepLast(rest, n - 1, col)

\* DataFrame.nlargest(n, col): descending, equal values in encounter order
RECURSIVE NLargest(_, _, _)
NLargest(rows, n, col) ==
    IF n = 0 \/ rows = <<>> THEN <<>>
    ELSE LET i == CHOOSE j \in DOMAIN rows :
                      /\ \A k \in DOMAIN rows : rows[k][col] <= rows[j][col]
                      /\ \A k \in 1..(j - 1) : rows[k][col] < rows[j][col]
             rest == [k \in 1..(Len(rows) - 1) |-> IF k < i THEN rows[k] ELSE rows[k + 1]]
         IN  <<rows[i]>> \o NLargest(rest, n - 1, col)

\* frame[[a, b]].to_dict('records')
Project(rows, cols) == [i \in DOMAIN rows |-> [c \in cols |-> rows[i][c]]]

\* the rollup of one partition of the frame
AggregatedData(partition_df) ==
    [total_cpu_usage      |-> SumOf(partition_df, "cpu_usage"),
     total_memory_usage   |-> SumOf(partition_df, "mem_usage"),
     process_count        |-> Cardinality({partition_df[i].command : i \in DOMAIN partition_df}),
     top_cpu_processes    |-> Project(NLargest(partition_df, TopN, "cpu_usage"),
                                      {"command", "cpu_usage"}),
     top_memory_processes |-> Project(NLargest(partition_df, TopN, "mem_usage"),
                                      {"command", "mem_usage"})]

PartitionKeys(df) == {df[i].partition_key : i \in DOMAIN df}

\* the rows of one group of df.groupby('partition_key')
PartitionOf(df, key) ==
    LET InGroup(r) == r.partition_key = key
    IN  SelectSeq(df, InGroup)

\* a variant that adds the new sums and count to the stored ones
UpdateRedisAggregationsMerged(store, df) ==
    [k \in DOMAIN store \cup PartitionKeys(df) |->
        IF k \notin PartitionKeys(df) THEN store[k]
        ELSE LET new == AggregatedData(PartitionOf(df, k))
             IN  IF k \notin DOMAIN store THEN new
                 ELSE [new EXCEPT
                          !.total_cpu_usage = @ + store[k].total_cpu_usage,
                          !.total_memory_usage = @ + store[k].total_memory_usage,
                          !.process_count = @ + store[k].process_count]]

\* a variant that leaves a rollup that is already stored as it is
UpdateRedisAggregationsKeepFirst(store, df) ==
    [k \in DOMAIN store \cup PartitionKeys(df) |->
        IF k \in DOMAIN store THEN store[k] ELSE AggregatedData(PartitionOf(df, k))]

\* a variant that keeps the rollups of the frame's partition keys alone
UpdateRedisAggregationsFlush(store, df) ==
    [k \in PartitionKeys(df) |-> AggregatedData(PartitionOf(df, k))]

\* _update_redis_aggregations: one redis set per partition key of the frame
UpdateRedisAggregations(store, df) ==
    [k \in DOMAIN store \cup PartitionKeys(df) |->
        IF k \in PartitionKeys(df) THEN AggregatedData(PartitionOf(df, k)) ELSE store[k]]

Returned(task, outcome) == [task EXCEPT !.pc = "done", !.outcome = outcome, !.df = <<>>]

(***************************************************************************)
(* Actions                                                                 *)
(***************************************************************************)
Init ==
    /\ clock = 0
    /\ staging = <<>>
    /\ rollups = <<>>
    /\ durable = <<>>
    /\ tasks = <<>>
    /\ calls = <<>>
    /\ rollupBy = <<>>
    /\ parseIn = <<>>
    /\ parseOut = [parser |-> "", result |-> ParseErr("")]
    /\ plan = [done |-> FALSE]
    /\ cache = <<>>
    /\ queries = <<>>
    /\ lookup = [key |-> None, hit |-> FALSE, answer |-> <<>>, reads |-> <<>>,
                 hits |-> 0, evictions |-> 0, seen |-> 0]

\* time passes
Tick ==
    /\ clock < MaxTick
    /\ clock' = clock + 1
    /\ UNCHANGED <<staging, rollups, durable, tasks, calls, rollupBy, parseVars, queryVars>>

\* POST /ingest: ingest_data, receive_and_parse_data, store_process_data_in_redis.
\* Two calls are made at two instants of the clock.
IngestOf(bodies) ==
    /\ Len(calls) < MaxIngest
    /\ calls # <<>> => calls[Len(calls)].at < clock
    /\ \E i \in bodies :
        LET result == Received[i]
            call   == Len(calls) + 1
        IN  /\ staging' = StagingAfterIngest(staging, clock, Payloads[i], result)
            /\ tasks' = TasksAfterIngest(tasks, call, clock, result)
            /\ calls' = Append(calls,
                               [payload      |-> i,
                                at           |-> clock,
                                ok           |-> result.ok,
                                err          |-> result.err,
                                batch_id     |-> IF result.ok THEN BatchId(clock) ELSE -1,
                                record_count |-> Len(result.recs)])
    /\ UNCHANGED <<clock, rollups, durable, rollupBy, parseVars, queryVars>>

Ingest == IngestOf(DOMAIN Payloads)

\* process_and_store_data: read the staged batch, validate it, build the frame
MatGet(t) ==
    /\ tasks[t].pc = "get"
    /\ LET read == MaterializeRead(staging, tasks[t].batch_id)
           started == [tasks[t] EXCEPT
                          !.after = {u \in DOMAIN tasks : tasks[u].pc = "done"}]
       IN  tasks' = [tasks EXCEPT ![t] =
                        IF read.outcome # "" THEN Returned(started, read.outcome)
                        ELSE [started EXCEPT !.pc = "insert", !.df = read.df]]
    /\ UNCHANGED <<clock, staging, rollups, durable, calls, rollupBy, parseVars, queryVars>>

\* _update_sql_database: the insert commits, or raises and is rolled back
MatInsert(t) ==
    /\ tasks[t].pc = "insert"
    /\ \E raised \in BOOLEAN :
        IF raised
        THEN /\ durable' = Rollback(durable, tasks[t].df)
             /\ tasks' = [tasks EXCEPT ![t] = Returned(@, "insert_failed")]
        ELSE /\ durable' = BulkInsert(durable, tasks[t].df)
             /\ tasks' = [tasks EXCEPT ![t].pc = "rollup"]
    /\ UNCHANGED <<clock, staging, rollups, calls, rollupBy, parseVars, queryVars>>

\* _update_redis_aggregations
MatRollup(t) ==
    /\ tasks[t].pc = "rollup"
    /\ rollups' = UpdateRedisAggregations(rollups, tasks[t].df)
    /\ rollupBy' = [k \in DOMAIN rollups' |->
                       IF k \in PartitionKeys(tasks[t].df)
                       THEN [task |-> t, df |-> PartitionOf(tasks[t].df, k)]
                       ELSE rollupBy[k]]
    /\ tasks' = [tasks EXCEPT ![t].pc = "delete"]
    /\ UNCHANGED <<clock, staging, durable, calls, parseVars, queryVars>>

\* redis_client.delete(batch_id), and the call returns
MatDelete(t) ==
    /\ tasks[t].pc = "delete"
    /\ staging' = RedisDelete(staging, tasks[t].batch_id)
    /\ tasks' = [tasks EXCEPT ![t] = Returned(@, "ok")]
    /\ UNCHANGED <<clock, rollups, durable, calls, rollupBy, parseVars, queryVars>>

Next ==
    \/ Tick
    \/ Ingest
    \/ \E t \in DOMAIN tasks : MatGet(t)
    \/ \E t \in DOMAIN tasks : MatInsert(t)
    \/ \E t \in DOMAIN tasks : MatRollup(t)
    \/ \E t \in DOMAIN tasks : MatDelete(t)

Spec == Init /\ [][Next]_vars

\* the background task of a successful ingest call is run, and a call of
\* process_and_store_data that has started goes on to its return
Fairness ==
    \A t \in 1..MaxIngest :
        /\ WF_vars(t \in DOMAIN tasks /\ MatGet(t))
        /\ WF_vars(t \in DOMAIN tasks /\ MatInsert(t))
        /\ WF_vars(t \in DOMAIN tasks /\ MatRollup(t))
        /\ WF_vars(t \in DOMAIN tasks /\ MatDelete(t))

SpecLive == Spec /\ Fairness

(***************************************************************************)
(* The parsers on their own: one parse of one text                         *)
(***************************************************************************)
ParseUnix ==
    /\ parseOut.parser = ""
    /\ \E c \in Contents :
        /\ parseIn' = c
        /\ parseOut' = [parser |-> "UnixParser", result |-> UnixParse(c)]
    /\ UNCHANGED <<pipelineVars, queryVars>>

ParseWindows ==
    /\ parseOut.parser = ""
    /\ \E c \in Contents :
        /\ parseIn' = c
        /\ parseOut' = [parser |-> "WindowsParser", result |-> WindowsParse(c)]
    /\ UNCHANGED <<pipelineVars, queryVars>>

NextParse == ParseUnix \/ ParseWindows

SpecParse == Init /\ [][NextParse]_vars

(***************************************************************************)
(* The rollup on its own: one batch of up to MaxRows records               *)
(***************************************************************************)
\* how the values of a column run down a batch
Shapes == {"flat", "up", "down", "pairs", "wave"}

\* the value, in tenths, of record i of n under a shape
ShapeValue(shape, i, n) ==
    CASE shape = "flat"  -> 5
      [] shape = "up"    -> i
      [] shape = "down"  -> n - i
      [] shape = "pairs" -> (i + 1) \div 2
      [] shape = "wave"  -> i % 3

\* the ProcessData a parser returns for one ps line
ProcessRecord(pid, cpu, mem, command) ==
    [user       |-> S_USER,
     pid        |-> pid,
     cpu_usage  |-> cpu,
     mem_usage  |-> mem,
     vsz        |-> 0,
     rss        |-> 0,
     tty        |-> <<"?">>,
     stat       |-> <<"S">>,
     start_time |-> <<"1", "0", ":", "0", "0">>,
     duration   |-> <<"0", ":", "0", "1">>,
     command    |-> command]

\* n parsed records over `commands` different command names
ParsedBatch(n, cpuShape, memShape, commands) ==
    [i \in 1..n |->
        ProcessRecord(i, ShapeValue(cpuShape, i, n), ShapeValue(memShape, i, n),
                      <<"c", Digits[(i % commands) + 1]>>)]

\* _update_redis_aggregations on the frame of one staged batch
RollupBatch ==
    /\ rollups = <<>>
    /\ \E n \in 1..MaxRows, cpuShape \in Shapes, memShape \in Shapes, commands \in 1..3 :
        LET df == DataFrame(DataToStore(MetaA, ParsedBatch(n, cpuShape, memShape, commands)))
        IN  /\ rollups' = UpdateRedisAggregations(rollups, df)
            /\ rollupBy' = [k \in DOMAIN rollups' |-> [task |-> 1, df |-> PartitionOf(df, k)]]
    /\ UNCHANGED <<clock, staging, durable, tasks, calls, parseVars, queryVars>>

NextRollup == RollupBatch

SpecRollup == Init /\ [][NextRollup]_vars

(***************************************************************************)
(* SmartQueryEngine: the planner                                           *)
(***************************************************************************)
\* "real_time"
S_real_time ==
    <<"r", "e", "a", "l", "_", "t", "i", "m", "e">>

\* "historical"
S_historical ==
    <<"h", "i", "s", "t", "o", "r", "i", "c", "a", "l">>

\* "count"
S_count ==
    <<"c", "o", "u", "n", "t">>

\* "sum"
S_sum ==
    <<"s", "u", "m">>

\* "avg"
S_avg ==
    <<"a", "v", "g">>

\* "min"
S_min ==
    <<"m", "i", "n">>

\* "max"
S_max ==
    <<"m", "a", "x">>

\* "total_cpu_usage"
AggTotalCpuUsage ==
    <<"t", "o", "t", "a", "l", "_", "c", "p", "u", "_", "u", "s",
      "a", "g", "e">>

\* "total_memory_usage"
AggTotalMemoryUsage ==
    <<"t", "o", "t", "a", "l", "_", "m", "e", "m", "o", "r", "y",
      "_", "u", "s", "a", "g", "e">>

\* "process_count"
AggProcessCount ==
    <<"p", "r", "o", "c", "e", "s", "s", "_", "c", "o", "u", "n",
      "t">>

\* "avg_cpu"
AggAvgCpu ==
    <<"a", "v", "g", "_", "c", "p", "u">>

\* "count_pid"
AggCountPid ==
    <<"c", "o", "u", "n", "t", "_", "p", "i", "d">>

\* "sum_mem"
AggSumMem ==
    <<"s", "u", "m", "_", "m", "e", "m">>

\* "max_cpu_usage"
AggMaxCpuUsage ==
    <<"m", "a", "x", "_", "c", "p", "u", "_", "u", "s", "a", "g",
      "e">>

\* "min_pid"
AggMinPid ==
    <<"m", "i", "n", "_", "p", "i", "d">>

\* "count"
AggCount ==
    <<"c", "o", "u", "n", "t">>

\* "median_cpu"
AggMedianCpu ==
    <<"m", "e", "d", "i", "a", "n", "_", "c", "p", "u">>

\* an Optional value that is set; None is the one that is not
Some(x) == <<x>>

\* dict.get(key, default)
Get(d, key, default) == IF key \in DOMAIN d THEN d[key] ELSE default

\* timedelta(days=n), in instants
Timedelta(days) == days * TsPerDay

SecondsPerInstant == 86400 \div TsPerDay

\* datetime.now() at a tick of the wall clock; the run starts on day 1 at 00:00
Now(tick) == Timedelta(1) + (tick \div TicksPerSecond) \div SecondsPerInstant

DefaultRangeDays == 30

MaxTimeRangeDays == 365

DefaultLimit == 100

MaxLimit == 1000

\* _analyze_query: the structured query; model_dump() hands over every field of
\* QueryParams, so a default of get() applies to group_by alone
AnalyzeQuery(query_params) ==
    [type            |-> Get(query_params, "type", Some(S_historical)),
     start_time      |-> Get(query_params, "start_time", None),
     end_time        |-> Get(query_params, "end_time", None),
     os_type         |-> Get(query_params, "os_type", None),
     machine_id      |-> Get(query_params, "machine_id", None),
     command         |-> Get(query_params, "command", None),
     cpu_usage_gt    |-> Get(query_params, "cpu_usage_gt", None),
     memory_usage_gt |-> Get(query_params, "memory_usage_gt", None),
     limit           |-> Get(query_params, "limit", Some(DefaultLimit)),
     offset          |-> Get(query_params, "offset", Some(0)),
     aggregations    |-> Get(query_params, "aggregations", <<>>),
     group_by        |-> Get(query_params, "group_by", <<>>)]

\* a variant that cuts the range to a year before it exchanges the two times
OptimizeTimeRangeCutFirst(start_time, end_time, now) ==
    LET start0 == IF start_time = None THEN now - Timedelta(DefaultRangeDays)
                  ELSE start_time[1]
        end0   == IF end_time = None THEN now ELSE end_time[1]
        start1 == IF end0 - start0 > Timedelta(MaxTimeRangeDays)
                  THEN end0 - Timedelta(MaxTimeRangeDays)
                  ELSE start0
    IN  [start_time |-> IF start1 > end0 THEN end0 ELSE start1,
         end_time   |-> IF start1 > end0 THEN start1 ELSE end0]

\* the time range of _optimize_query: defaults, exchange, cut to a year
OptimizeTimeRange(start_time, end_time, now) ==
    LET start0 == IF start_time = None THEN now - Timedelta(DefaultRangeDays)
                  ELSE start_time[1]
        end0   == IF end_time = None THEN now ELSE end_time[1]
        start1 == IF start0 > end0 THEN end0 ELSE start0
        end1   == IF start0 > end0 THEN start0 ELSE end0
    IN  [start_time |-> IF end1 - start1 > Timedelta(MaxTimeRangeDays)
                        THEN end1 - Timedelta(MaxTimeRangeDays)
                        ELSE start1,
         end_time   |-> end1]

\* a variant that also raises a limit below 1 to 1
OptimizeLimitFloored(limit) ==
    LET set == IF limit = None \/ limit = Some(0) THEN DefaultLimit ELSE limit[1]
    IN  IF set > MaxLimit THEN MaxLimit ELSE IF set < 1 THEN 1 ELSE set

\* the limit of _optimize_query: 100 when falsy, then min(limit, 1000)
OptimizeLimit(limit) ==
    LET set == IF limit = None \/ limit = Some(0) THEN DefaultLimit ELSE limit[1]
    IN  IF set > MaxLimit THEN MaxLimit ELSE set

\* a variant that turns a negative offset into its absolute value
OptimizeOffsetAbs(offset) == IF offset[1] < 0 THEN 0 - offset[1] ELSE offset[1]

\* the offset of _optimize_query: max(offset, 0), for an offset that is set
OptimizeOffset(offset) == IF offset[1] < 0 THEN 0 ELSE offset[1]

\* list(dict.fromkeys(aggregations))
UniqueAggregations(aggregations) ==
    LET First(i) == \A j \in 1..(i - 1) : aggregations[j] # aggregations[i]
        kept == {i \in DOMAIN aggregations : First(i)}
        Nth(n) == CHOOSE i \in kept : Cardinality({j \in kept : j < i}) = n - 1
    IN  [n \in 1..Cardinality(kept) |-> aggregations[Nth(n)]]

priority_order == <<S_count, S_sum, S_avg, S_min, S_max>>

\* the sort key: the place of x.split('_')[0] in priority_order, else its length
AggregationPriority(x) ==
    LET prefix == SplitOn(x, "_")[1]
    IN  IF \E i \in DOMAIN priority_order : priority_order[i] = prefix
        THEN (CHOOSE i \in DOMAIN priority_order : priority_order[i] = prefix) - 1
        ELSE Len(priority_order)

\* a variant that puts x before the names of its own priority
RECURSIVE SortedByPriorityUnstable(_)
SortedByPriorityUnstable(names) ==
    IF names = <<>> THEN <<>>
    ELSE LET front == SortedByPriorityUnstable(SubSeq(names, 1, Len(names) - 1))
             x     == names[Len(names)]
             k     == Cardinality({i \in DOMAIN front :
                                      AggregationPriority(front[i]) < AggregationPriority(x)})
         IN  SubSeq(front, 1, k) \o <<x>> \o SubSeq(front, k + 1, Len(front))

\* sorted(names, key=...): stable, so x goes behind every name that sorts no later
RECURSIVE SortedByPriority(_)
SortedByPriority(names) ==
    IF names = <<>> THEN <<>>
    ELSE LET front == SortedByPriority(SubSeq(names, 1, Len(names) - 1))
             x     == names[Len(names)]
             k     == Cardinality({i \in DOMAIN front :
                                      AggregationPriority(front[i]) <= AggregationPriority(x)})
         IN  SubSeq(front, 1, k) \o <<x>> \o SubSeq(front, k + 1, Len(front))

\* _optimize_aggregations
OptimizeAggregations(aggregations) == SortedByPriority(UniqueAggregations(aggregations))

\* _optimize_filters: the filters that are not None, thresholds raised to 0
OptimizeFilters(query) ==
    LET plain == {k \in {"os_type", "machine_id", "command"} : query[k] # None}
        floor == {k \in {"cpu_usage_gt", "memory_usage_gt"} : query[k] # None}
    IN  [k \in plain \cup floor |->
            IF k \in plain THEN query[k][1]
            ELSE IF query[k][1] < 0 THEN 0 ELSE query[k][1]]

\* _optimize_query: the optimized query, or the TypeError of max(None, 0)
OptimizeQuery(analyzed, now) ==
    IF analyzed.offset = None
    THEN [err |-> "TypeError", query |-> analyzed]
    ELSE LET range == OptimizeTimeRange(analyzed.start_time, analyzed.end_time, now)
             timed == [analyzed EXCEPT
                          !.start_time = range.start_time,
                          !.end_time = range.end_time,
                          !.limit = OptimizeLimit(analyzed.limit),
                          !.offset = OptimizeOffset(analyzed.offset),
                          !.aggregations = IF @ # <<>> THEN OptimizeAggregations(@) ELSE @]
         IN  [err   |-> "",
              query |-> Update(timed, [filters |-> OptimizeFilters(timed)])]

pre_aggregated_aggs == {AggTotalCpuUsage, AggTotalMemoryUsage, AggProcessCount}

\* a variant for which one pre-aggregated name is enough
SelectDataSourceAny(optimized_query) ==
    IF optimized_query.type = Some(S_real_time) THEN "raw_data_store"
    ELSE IF \E i \in DOMAIN optimized_query.aggregations :
                optimized_query.aggregations[i] \in pre_aggregated_aggs
    THEN "pre_aggregated_store"
    ELSE "sql_store"

\* _select_data_source
SelectDataSource(optimized_query) ==
    IF optimized_query.type = Some(S_real_time) THEN "raw_data_store"
    ELSE IF optimized_query.aggregations = <<>> THEN "sql_store"
    ELSE IF \A i \in DOMAIN optimized_query.aggregations :
                optimized_query.aggregations[i] \in pre_aggregated_aggs
    THEN "pre_aggregated_store"
    ELSE "sql_store"

\* execute_query up to the choice of the source
PlanQuery(query_params, now) ==
    LET optimized == OptimizeQuery(AnalyzeQuery(query_params), now)
    IN  [params      |-> query_params,
         err         |-> optimized.err,
         optimized   |-> optimized.query,
         data_source |-> IF optimized.err = "" THEN SelectDataSource(optimized.query)
                         ELSE ""]

(***************************************************************************)
(* SmartQueryEngine: execution                                             *)
(***************************************************************************)
\* maxsize of the lru_cache on _get_aggregated_data
CacheSize == 128

\* the {} that _get_aggregated_data returns for a key Redis does not hold
EmptyDict == <<>>

\* redis_client.get("agg_" + key) and json.loads: the stored rollup, or {}
GetAggregatedDataUncached(store, partition_key) ==
    IF partition_key \in DOMAIN store THEN store[partition_key] ELSE EmptyDict

\* the state a run of lookups starts from
Lookups(cached) == [cache |-> cached, answers |-> <<>>, reads |-> <<>>]

\* a variant whose cache keeps the order in which the keys came in
GetAggregatedDataFifo(run, store, partition_key) ==
    LET hit    == \E j \in DOMAIN run.cache : run.cache[j].key = partition_key
        value  == IF hit
                  THEN run.cache[CHOOSE j \in DOMAIN run.cache :
                                    run.cache[j].key = partition_key].value
                  ELSE GetAggregatedDataUncached(store, partition_key)
        kept   == IF Len(run.cache) >= CacheSize THEN Tail(run.cache) ELSE run.cache
    IN  [cache   |-> IF hit THEN run.cache
                     ELSE Append(kept, [key |-> partition_key, value |-> value]),
         answers |-> Append(run.answers, value),
         reads   |-> IF hit THEN run.reads ELSE Append(run.reads, partition_key)]

\* a variant whose cache keeps only the rollups found, never the {}
GetAggregatedDataNoEmpty(run, store, partition_key) ==
    LET hit    == \E j \in DOMAIN run.cache : run.cache[j].key = partition_key
        value  == IF hit
                  THEN run.cache[CHOOSE j \in DOMAIN run.cache :
                                    run.cache[j].key = partition_key].value
                  ELSE GetAggregatedDataUncached(store, partition_key)
        others == SelectSeq(run.cache, LAMBDA e : e.key # partition_key)
        kept   == IF ~hit /\ Len(run.cache) >= CacheSize THEN Tail(run.cache) ELSE others
    IN  [cache   |-> IF value = EmptyDict THEN run.cache
                     ELSE Append(kept, [key |-> partition_key, value |-> value]),
         answers |-> Append(run.answers, value),
         reads   |-> IF hit THEN run.reads ELSE Append(run.reads, partition_key)]

\* a variant that answers a cached key with what Redis holds now
GetAggregatedDataFresh(run, store, partition_key) ==
    LET hit    == \E j \in DOMAIN run.cache : run.cache[j].key = partition_key
        value  == GetAggregatedDataUncached(store, partition_key)
        others == SelectSeq(run.cache, LAMBDA e : e.key # partition_key)
        kept   == IF ~hit /\ Len(run.cache) >= CacheSize THEN Tail(run.cache) ELSE others
    IN  [cache   |-> Append(kept, [key |-> partition_key, value |-> value]),
         answers |-> Append(run.answers, value),
         reads   |-> IF hit THEN run.reads ELSE Append(run.reads, partition_key)]

\* one call of _get_aggregated_data through its lru_cache: a cached key is
\* answered from the cache and becomes the most recently used; any other key
\* is read from Redis and cached, in place of the least recently used entry
\* when the cache is full
GetAggregatedData(run, store, partition_key) ==
    LET hit    == \E j \in DOMAIN run.cache : run.cache[j].key = partition_key
        value  == IF hit
                  THEN run.cache[CHOOSE j \in DOMAIN run.cache :
                                    run.cache[j].key = partition_key].value
                  ELSE GetAggregatedDataUncached(store, partition_key)
        others == SelectSeq(run.cache, LAMBDA e : e.key # partition_key)
        kept   == IF ~hit /\ Len(run.cache) >= CacheSize THEN Tail(run.cache) ELSE others
    IN  [cache   |-> Append(kept, [key |-> partition_key, value |-> value]),
         answers |-> Append(run.answers, value),
         reads   |-> IF hit THEN run.reads ELSE Append(run.reads, partition_key)]

\* a variant of the list that has the tag "unix" as well
DefaultOsTypesWithUnix == <<OsWindows, OsLinux, OsMac, OsUnix>>

\* the os types a pre-aggregated query runs through when it has no filter
DefaultOsTypes == <<OsWindows, OsLinux, OsMac>>

\* what `for os_type in filters.get('os_type', [...])` runs through: the default
\* list, or the characters of the filter's string, one after the other
OsTypesOf(filters) ==
    IF "os_type" \in DOMAIN filters
    THEN [i \in 1..Len(filters.os_type) |-> <<filters.os_type[i]>>]
    ELSE DefaultOsTypes

\* a variant that runs through the dates within each os type
PartitionKeysOfOsMajor(optimized_query) ==
    LET first == PeriodDay(optimized_query.start_time)
        last  == PeriodDay(optimized_query.end_time)
        os    == OsTypesOf(optimized_query.filters)
        days  == last - first + 1
    IN  [i \in 1..(days * Len(os)) |->
            <<first + ((i - 1) % days), os[((i - 1) \div days) + 1]>>]

\* the partition keys _execute_on_pre_aggregated looks up, in its order: the
\* dates from start_time's to end_time's, and the os types within each date
PartitionKeysOf(optimized_query) ==
    LET first == PeriodDay(optimized_query.start_time)
        last  == PeriodDay(optimized_query.end_time)
        os    == OsTypesOf(optimized_query.filters)
    IN  [i \in 1..((last - first + 1) * Len(os)) |->
            <<first + (i - 1) \div Len(os), os[((i - 1) % Len(os)) + 1]>>]

\* the lookups of keys[lo..hi], one after the other
RECURSIVE LookupAll(_, _, _, _, _)
LookupAll(run, store, keys, lo, hi) ==
    IF lo > hi THEN run
    ELSE IF lo = hi THEN GetAggregatedData(run, store, keys[lo])
    ELSE LET mid  == (lo + hi) \div 2
             left == LookupAll(run, store, keys, lo, mid)
         IN  IF left = left THEN LookupAll(left, store, keys, mid + 1, hi) ELSE left

\* _execute_on_pre_aggregated: the rollups found that are not empty
ExecuteOnPreAggregated(optimized_query, store, cached) ==
    LET keys == PartitionKeysOf(optimized_query)
        run  == LookupAll(Lookups(cached), store, keys, 1, Len(keys))
    IN  [err      |-> "",
         result   |-> SelectSeq(run.answers, LAMBDA a : a # EmptyDict),
         cache    |-> run.cache,
         lookups  |-> keys,
         answers  |-> run.answers,
         reads    |-> run.reads,
         sql_read |-> FALSE]

\* the attributes of models.ProcessData that are columns, by their names as text
ColumnNamed ==
    {<<<<"i", "d">>, "id">>,
     <<<<"c", "o", "m", "m", "a", "n", "d">>, "command">>,
     <<<<"p", "i", "d">>, "pid">>,
     <<<<"v", "s", "z">>, "vsz">>,
     <<<<"r", "s", "s">>, "rss">>,
     <<<<"c", "p", "u", "_", "u", "s", "a", "g", "e">>, "cpu_usage">>,
     <<<<"m", "e", "m", "_", "u", "s", "a", "g", "e">>, "mem_usage">>,
     <<<<"t", "t", "y">>, "tty">>,
     <<<<"s", "t", "a", "t">>, "stat">>,
     <<<<"s", "t", "a", "r", "t", "_", "t", "i", "m", "e">>, "start_time">>,
     <<<<"d", "u", "r", "a", "t", "i", "o", "n">>, "duration">>,
     <<<<"u", "s", "e", "r">>, "user">>,
     <<<<"t", "i", "m", "e", "s", "t", "a", "m", "p">>, "timestamp">>,
     <<<<"m", "a", "c", "h", "i", "n", "e", "_", "n", "a", "m", "e">>, "machine_name">>,
     <<<<"m", "a", "c", "h", "i", "n", "e", "_", "i", "d">>, "machine_id">>,
     <<<<"o", "s", "_", "t", "y", "p", "e">>, "os_type">>}

\* hasattr(ProcessData, column), for the names of columns
HasColumn(name) == \E c \in ColumnNamed : c[1] = name

ColumnOf(name) == (CHOOSE c \in ColumnNamed : c[1] = name)[2]

\* substring, for ilike('%...%') on lowered text
Contains(s, sub) == \E i \in 0..(Len(s) - Len(sub)) : SubSeq(s, i + 1, i + Len(sub)) = sub

\* an Optional string that is set and not empty
TruthyText(o) == o # None /\ o[1] # <<>>

\* the filters of _execute_on_sql on one row
SqlWhere(optimized_query, row) ==
    /\ row.timestamp >= optimized_query.start_time
    /\ row.timestamp <= optimized_query.end_time
    /\ TruthyText(optimized_query.os_type) => row.os_type = optimized_query.os_type[1]
    /\ TruthyText(optimized_query.machine_id)
          => row.machine_id = optimized_query.machine_id[1]
    /\ TruthyText(optimized_query.command)
          => Contains(Lower(row.command), Lower(optimized_query.command[1]))
    /\ optimized_query.cpu_usage_gt # None
          => row.cpu_usage > optimized_query.cpu_usage_gt[1]
    /\ optimized_query.memory_usage_gt # None
          => row.mem_usage > optimized_query.memory_usage_gt[1]

\* row.to_dict()
RowToDict(row) == [c \in ModelColumns \ {"duration"} |-> row[c]]

\* the aggregations _execute_on_sql selects: type_column with a mapped column
SelectEntities(aggregations) ==
    LET Selected(agg) ==
            /\ Len(SplitOn(agg, "_")) >= 2
            /\ HasColumn(Join(Tail(SplitOn(agg, "_")), <<"_">>))
    IN  SelectSeq(aggregations, Selected)

\* the values of a column in the rows; the columns a query of the model
\* aggregates are NULL in no inserted row
ValuesOf(rows, column) == [i \in DOMAIN rows |-> rows[i][column]]

RECURSIVE SumSeq(_)
SumSeq(values) == IF values = <<>> THEN 0 ELSE Head(values) + SumSeq(Tail(values))

\* func.count, sum, min, max, avg over the rows; avg for any other type; the
\* average is kept as the sum and the number of values
AggregationFunc(agg_type, values) ==
    IF agg_type = S_count THEN Len(values)
    ELSE IF values = <<>> THEN None
    ELSE IF agg_type = S_sum THEN SumSeq(values)
    ELSE IF agg_type = S_min
    THEN CHOOSE v \in {values[i] : i \in DOMAIN values} :
            \A i \in DOMAIN values : v <= values[i]
    ELSE IF agg_type = S_max
    THEN CHOOSE v \in {values[i] : i \in DOMAIN values} :
            \A i \in DOMAIN values : v >= values[i]
    ELSE [sum |-> SumSeq(values), count |-> Len(values)]

\* the one row of an aggregate select: label -> value
AggregateRow(entities, rows) ==
    [agg \in {entities[i] : i \in DOMAIN entities} |->
        LET parts == SplitOn(agg, "_")
        IN  AggregationFunc(parts[1], ValuesOf(rows, ColumnOf(Join(Tail(parts), <<"_">>))))]

\* a variant that cuts the rows to the limit before it skips the offset
LimitThenOffset(rows, limit, offset) ==
    LET cut  == SubSeq(rows, 1, IF limit > Len(rows) THEN Len(rows) ELSE limit)
        from == IF offset > Len(cut) THEN Len(cut) ELSE offset
    IN  SubSeq(cut, from + 1, Len(cut))

\* LIMIT and OFFSET on the rows of the select
LimitOffset(rows, limit, offset) ==
    LET from == IF offset > Len(rows) THEN Len(rows) ELSE offset
        upto == IF from + limit > Len(rows) THEN Len(rows) ELSE from + limit
    IN  SubSeq(rows, from + 1, upto)

\* _execute_on_sql on the rows of process_data, in the order they were inserted.
\* group_by is not a field of QueryParams and is always empty. A select without
\* entities and a negative LIMIT are errors of the database.
ExecuteOnSql(optimized_query, table, cached) ==
    LET rows     == SelectSeq(table, LAMBDA r : SqlWhere(optimized_query, r))
        entities == SelectEntities(optimized_query.aggregations)
        selected == IF optimized_query.aggregations = <<>>
                    THEN [i \in DOMAIN rows |-> RowToDict(rows[i])]
                    ELSE <<AggregateRow(entities, rows)>>
        err      == IF optimized_query.aggregations # <<>> /\ entities = <<>>
                    THEN "InvalidRequestError"
                    ELSE IF optimized_query.limit < 0 THEN "DataError"
                    ELSE ""
    IN  [err      |-> err,
         result   |-> IF err # "" THEN <<>>
                      ELSE LimitOffset(selected, optimized_query.limit,
                                       optimized_query.offset),
         cache    |-> cached,
         lookups  |-> <<>>,
         answers  |-> <<>>,
         reads    |-> <<>>,
         sql_read |-> TRUE]

\* what a query that raised leaves behind
QueryRaised(err, cached) ==
    [err |-> err, result |-> <<>>, cache |-> cached, lookups |-> <<>>,
     answers |-> <<>>, reads |-> <<>>, sql_read |-> FALSE]

\* _execute_optimized_query
ExecuteOptimizedQuery(optimized_query, data_source, store, table, cached) ==
    IF data_source = "pre_aggregated_store"
    THEN ExecuteOnPreAggregated(optimized_query, store, cached)
    ELSE IF data_source = "sql_store"
    THEN ExecuteOnSql(optimized_query, table, cached)
    ELSE QueryRaised("NotImplementedError", cached)

\* execute_query: the plan, and what running it read, cached and returned
ExecuteQuery(query_params, now, store, table, cached) ==
    LET planned == PlanQuery(query_params, now)
        ran     == IF planned.err # "" THEN QueryRaised(planned.err, cached)
                   ELSE ExecuteOptimizedQuery(planned.optimized, planned.data_source,
                                              store, table, cached)
    IN  Update(ran, [params      |-> query_params,
                     optimized   |-> planned.optimized,
                     data_source |-> planned.data_source,
                     total_count |-> Len(ran.result)])

(***************************************************************************)
(* The planner on its own: one query                                       *)
(***************************************************************************)
\* the body of a POST /query as QueryParams.model_dump() hands it over
QueryParams(type, start_time, end_time, os_type, limit, offset, aggregations) ==
    [start_time      |-> start_time,
     end_time        |-> end_time,
     os_type         |-> os_type,
     type            |-> type,
     machine_id      |-> None,
     command         |-> None,
     cpu_usage_gt    |-> None,
     memory_usage_gt |-> None,
     limit           |-> limit,
     offset          |-> offset,
     aggregations    |-> aggregations]

Optional(S) == {None} \cup {Some(x) : x \in S}

QueryTypes == Optional({S_historical, S_real_time})

\* instants around the start of the run, a year later and 40 days earlier
QueryTimes ==
    Optional({0, TsPerDay - 1, Timedelta(MaxTimeRangeDays), Timedelta(MaxTimeRangeDays) + 1,
              Timedelta(400), 0 - Timedelta(40)})

QueryLimits == Optional({0 - 5, 0, 1, DefaultLimit, MaxLimit, MaxLimit + 1, 5 * MaxLimit})

QueryOffsets == Optional({0 - 5, 0, 7})

\* names of every known prefix, two of one prefix, and names of no known prefix
AggregationNames ==
    {AggTotalCpuUsage, AggProcessCount, AggAvgCpu, AggCountPid, AggSumMem,
     AggMaxCpuUsage, AggMinPid, AggCount, AggMedianCpu}

\* the planner on a query of some type, time range, limit and offset
PlanRange ==
    /\ ~plan.done
    /\ \E type \in QueryTypes, start_time \in QueryTimes, end_time \in QueryTimes,
          limit \in QueryLimits, offset \in QueryOffsets,
          aggregations \in {<<>>, <<AggTotalMemoryUsage, AggProcessCount, AggTotalCpuUsage>>} :
        plan' = Update(PlanQuery(QueryParams(type, start_time, end_time, None, limit,
                                             offset, aggregations), Now(clock)),
                       [done |-> TRUE])
    /\ UNCHANGED <<pipelineVars, parseVars, cache, queries, lookup>>

\* the planner on a query with a list of aggregations
PlanAggregations ==
    /\ ~plan.done
    /\ \E type \in QueryTypes, aggregations \in SeqsUpTo(AggregationNames, MaxAggs) :
        plan' = Update(PlanQuery(QueryParams(type, None, None, None, Some(DefaultLimit),
                                             Some(0), aggregations), Now(clock)),
                       [done |-> TRUE])
    /\ UNCHANGED <<pipelineVars, parseVars, cache, queries, lookup>>

NextPlan == PlanRange \/ PlanAggregations

SpecPlan == Init /\ [][NextPlan]_vars

(***************************************************************************)
(* Queries next to ingestion and materialisation                           *)
(***************************************************************************)
\* the bodies POST /query is called with: real_time queries, pre-aggregated
\* queries over two days with and without an os_type, and a primary-store query
QueryInputs ==
    <<QueryParams(Some(S_real_time), None, None, None, Some(DefaultLimit), Some(0), <<>>),
      QueryParams(Some(S_real_time), Some(0), Some(TsPerDay), Some(OsLinux),
                  Some(DefaultLimit), None, <<AggProcessCount>>),
      QueryParams(None, Some(0), Some(TsPerDay), None, Some(DefaultLimit), Some(0),
                  <<AggProcessCount>>),
      QueryParams(None, Some(0), Some(TsPerDay), Some(OsLinux), Some(DefaultLimit), Some(0),
                  <<AggTotalCpuUsage, AggProcessCount>>),
      QueryParams(None, Some(0), Some(TsPerDay), None, Some(1), Some(0), <<>>)>>

\* the bodies POST /ingest is called with next to queries: two batches of one
\* day and os_type, and one of another day and os_type
QueryPayloads == {1, 2, 5}

\* a variant whose lookups take the rollups they read out of Redis
StoresAfterQueryTaken ==
    /\ rollups' = [k \in DOMAIN rollups \ {queries'[Len(queries')].reads[n] :
                                               n \in DOMAIN queries'[Len(queries')].reads} |->
                      rollups[k]]
    /\ UNCHANGED <<clock, staging, durable, tasks, calls, rollupBy>>

\* what a query call does to the stores: redis_client.get and the SELECT of
\* the session write nothing
StoresAfterQuery == UNCHANGED pipelineVars

\* POST /query: query_data and SmartQueryEngine.execute_query; an exception
\* of the engine becomes the response 500.  The history keeps, next to what
\* the call returned, the places of its lookups whose answer was not what the
\* rollup store held at the time.
QueryOf(inputs, most) ==
    /\ Len(queries) < most
    /\ \E i \in DOMAIN inputs :
        \E ran \in {ExecuteQuery(inputs[i], Now(clock), rollups, durable, cache)} :
            /\ cache' = ran.cache
            /\ queries' = Append(queries,
                                 Update(ran,
                                        [cache |-> Len(ran.cache),
                                         stale |-> {k \in DOMAIN ran.lookups :
                                                       ran.answers[k] #
                                                          GetAggregatedDataUncached(
                                                              rollups, ran.lookups[k])}]))
    /\ StoresAfterQuery
    /\ UNCHANGED <<parseVars, plan, lookup>>

Query == QueryOf(QueryInputs, MaxQuery)

NextQuery ==
    \/ Tick
    \/ IngestOf(QueryPayloads)
    \/ \E t \in DOMAIN tasks : MatGet(t)
    \/ \E t \in DOMAIN tasks : MatInsert(t)
    \/ \E t \in DOMAIN tasks : MatRollup(t)
    \/ \E t \in DOMAIN tasks : MatDelete(t)
    \/ Query

SpecQuery == Init /\ [][NextQuery]_vars

(***************************************************************************)
(* Pre-aggregated queries without an os_type, next to batches whose        *)
(* meta_info names the os by a tag outside the default list                *)
(***************************************************************************)
\* batches of the first day: meta_info.os_type "linux", "unix" and "Linux"
OsPayloads == {1, 15, 16}

\* pre-aggregated queries without an os_type: of the first day, of the first
\* two days, of the default range, and from the first day on
OsInputs ==
    <<QueryParams(None, Some(0), Some(TsPerDay - 1), None, Some(DefaultLimit), Some(0),
                  <<AggProcessCount>>),
      QueryParams(None, Some(0), Some(TsPerDay), None, Some(DefaultLimit), Some(0),
                  <<AggTotalCpuUsage>>),
      QueryParams(None, None, None, None, Some(DefaultLimit), Some(0), <<AggProcessCount>>),
      QueryParams(None, Some(0), None, None, Some(1), Some(0), <<AggProcessCount>>)>>

NextOs ==
    \/ Tick
    \/ IngestOf(OsPayloads)
    \/ \E t \in DOMAIN tasks : MatGet(t)
    \/ \E t \in DOMAIN tasks : MatInsert(t)
    \/ \E t \in DOMAIN tasks : MatRollup(t)
    \/ \E t \in DOMAIN tasks : MatDelete(t)
    \/ QueryOf(OsInputs, 1)

SpecOs == Init /\ [][NextOs]_vars

(***************************************************************************)
(* The rollup read cache on its own: calls of _get_aggregated_data, one by *)
(* one, after one batch has been ingested and materialized                 *)
(***************************************************************************)
\* the frame of the first payload
FirstFrame == DataFrame(DataToStore(Payloads[1].meta_info, Received[1].recs))

\* the state after POST /ingest of the first payload and its materialize task
InitCache ==
    /\ clock = 0
    /\ staging = <<>>
    /\ rollups = UpdateRedisAggregations(<<>>, FirstFrame)
    /\ durable = BulkInsert(<<>>, FirstFrame)
    /\ tasks = <<[batch_id |-> BatchId(0), pc |-> "done", df |-> <<>>,
                  outcome |-> "ok", after |-> {}]>>
    /\ calls = <<[payload |-> 1, at |-> 0, ok |-> TRUE, err |-> "",
                  batch_id |-> BatchId(0), record_count |-> Len(Received[1].recs)]>>
    /\ rollupBy = [k \in PartitionKeys(FirstFrame) |->
                      [task |-> 1, df |-> PartitionOf(FirstFrame, k)]]
    /\ parseIn = <<>>
    /\ parseOut = [parser |-> "", result |-> ParseErr("")]
    /\ plan = [done |-> FALSE]
    /\ cache = <<>>
    /\ queries = <<>>
    /\ lookup = [key |-> None, hit |-> FALSE, answer |-> <<>>, reads |-> <<>>,
                 hits |-> 0, evictions |-> 0, seen |-> 0]

\* the n-th partition key in the order of the pre-aggregated query: day 0 with
\* windows, linux, mac, then day 1, and so on
KeyNo(n) == <<(n - 1) \div 3, DefaultOsTypes[((n - 1) % 3) + 1]>>

CachedKeys == {cache[j].key : j \in DOMAIN cache}

\* the keys a call is made with: the next key never asked for, the first key
\* asked for that is cached no longer, and, once the cache is full or one key
\* short of it, its least and its most recently used key
LookupKeys ==
    LET room    == Len(cache) < CacheSize \/ lookup.evictions < MaxEvictions
        dropped == {n \in 1..lookup.seen : KeyNo(n) \notin CachedKeys}
    IN  (IF room THEN {KeyNo(lookup.seen + 1)} ELSE {})
        \cup (IF room /\ dropped # {}
              THEN {KeyNo(CHOOSE n \in dropped : \A m \in dropped : n <= m)}
              ELSE {})
        \cup (IF Len(cache) >= CacheSize - 1 /\ lookup.hits < MaxHits
              THEN {cache[1].key, cache[Len(cache)].key}
              ELSE {})

\* one call of SmartQueryEngine._get_aggregated_data(partition_key)
CachedLookup ==
    /\ \E key \in LookupKeys :
        LET ran  == GetAggregatedData(Lookups(cache), rollups, key)
            hit  == ran.reads = <<>>
        IN  /\ cache' = ran.cache
            /\ lookup' = [key       |-> key,
                          hit       |-> hit,
                          answer    |-> ran.answers[1],
                          reads     |-> ran.reads,
                          hits      |-> lookup.hits + IF hit THEN 1 ELSE 0,
                          evictions |-> lookup.evictions +
                                           IF ~hit /\ Len(cache) >= CacheSize THEN 1 ELSE 0,
                          seen      |-> IF key = KeyNo(lookup.seen + 1)
                                        THEN lookup.seen + 1 ELSE lookup.seen]
    /\ UNCHANGED <<pipelineVars, parseVars, plan, queries>>

NextCache == CachedLookup

SpecCache == InitCache /\ [][NextCache]_vars

(***************************************************************************)
(* The rollup read cache next to an overwrite: queries of one day and of   *)
(* the days after it, while a second batch of the first day's partition is *)
(* ingested and materialized                                               *)
(***************************************************************************)
\* the days of a query whose lookups fill the cache with keys of its own
WideDays == CacheSize \div Len(DefaultOsTypes) + 1

\* a pre-aggregated query of the first day, and one of the WideDays days after it
StaleInputs ==
    <<QueryParams(None, Some(0), Some(TsPerDay - 1), None, Some(DefaultLimit), Some(0),
                  <<AggProcessCount>>),
      QueryParams(None, Some(Timedelta(1)), Some(Timedelta(1 + WideDays) - 1), None,
                  Some(DefaultLimit), Some(0), <<AggProcessCount>>)>>

NextStale ==
    \/ Tick
    \/ IngestOf({2})
    \/ \E t \in DOMAIN tasks : MatGet(t)
    \/ \E t \in DOMAIN tasks : MatInsert(t)
    \/ \E t \in DOMAIN tasks : MatRollup(t)
    \/ \E t \in DOMAIN tasks : MatDelete(t)
    \/ QueryOf(StaleInputs, MaxStaleQuery)

SpecStale == InitCache /\ [][NextStale]_vars

(***************************************************************************)
(* Primary-store queries next to ingestion and materialisation: one query  *)
(* without aggregations, with its filters, thresholds, limit and offset    *)
(***************************************************************************)
\* "BA", "I": parts of the commands bash and init, in capitals
CommandBA == <<"B", "A">>

CommandI == <<"I">>

\* the body of a POST /query without type and aggregations
SqlQuery(os_type, machine_id, command, cpu_usage_gt, memory_usage_gt,
         start_time, end_time, limit, offset) ==
    [QueryParams(None, start_time, end_time, os_type, limit, offset, <<>>) EXCEPT
        !.machine_id = machine_id,
        !.command = command,
        !.cpu_usage_gt = cpu_usage_gt,
        !.memory_usage_gt = memory_usage_gt]

\* the bodies POST /query is called with: no filter, each filter alone (set,
\* empty, matching nothing), thresholds of 0, above 0 and below 0, time ranges,
\* limits and offsets, and filters together
SqlInputs ==
    <<SqlQuery(None, None, None, None, None, None, None, Some(DefaultLimit), Some(0)),
      SqlQuery(Some(OsLinux), None, None, None, None, None, None, Some(DefaultLimit), Some(0)),
      SqlQuery(Some(<<>>), None, None, None, None, None, None, Some(DefaultLimit), Some(0)),
      SqlQuery(Some(OsLinuxCap), None, None, None, None, None, None, Some(DefaultLimit),
               Some(0)),
      SqlQuery(None, Some(MachineId2), None, None, None, None, None, Some(DefaultLimit),
               Some(0)),
      SqlQuery(None, Some(<<>>), None, None, None, None, None, Some(DefaultLimit), Some(0)),
      SqlQuery(None, None, Some(CommandBA), None, None, None, None, Some(DefaultLimit),
               Some(0)),
      SqlQuery(None, None, Some(CommandI), None, None, None, None, Some(DefaultLimit),
               Some(0)),
      SqlQuery(None, None, None, Some(0), None, None, None, Some(DefaultLimit), Some(0)),
      SqlQuery(None, None, None, Some(5), None, None, None, Some(DefaultLimit), Some(0)),
      SqlQuery(None, None, None, Some(0 - 10), None, None, None, Some(DefaultLimit), Some(0)),
      SqlQuery(None, None, None, None, Some(0), None, None, Some(DefaultLimit), Some(0)),
      SqlQuery(None, None, None, None, Some(10), None, None, Some(DefaultLimit), Some(0)),
      SqlQuery(None, None, None, None, Some(0 - 10), None, None, Some(DefaultLimit), Some(0)),
      SqlQuery(None, None, None, None, None, Some(TsPerDay - 1), Some(TsPerDay - 1),
               Some(DefaultLimit), Some(0)),
      SqlQuery(None, None, None, None, None, Some(TsPerDay), Some(0), Some(DefaultLimit),
               Some(0)),
      SqlQuery(None, None, None, None, None, None, None, Some(1), Some(1)),
      SqlQuery(None, None, None, None, None, None, None, Some(2), Some(0)),
      SqlQuery(None, None, None, None, None, None, None, None, Some(7)),
      SqlQuery(None, None, None, None, None, None, None, Some(0), Some(0 - 5)),
      SqlQuery(None, None, None, None, None, None, None, Some(0 - 5), Some(0)),
      SqlQuery(None, None, None, None, None, None, None, Some(DefaultLimit), None),
      SqlQuery(Some(OsLinux), Some(MachineId1), Some(CommandBA), Some(5), Some(0),
               Some(0), Some(TsPerDay), Some(1), Some(0)),
      SqlQuery(Some(OsLinux), None, Some(CommandI), Some(0 - 10), Some(5), None, None,
               Some(1), Some(1))>>

\* the bodies POST /ingest is called with next to these queries: ps listings of
\* two machines and days, and a tasklist listing, whose records have no cpu_usage
SqlPayloads == {2, 5, 8}

\* one POST /query without aggregations
SqlQueryCall ==
    /\ queries = <<>>
    /\ QueryOf(SqlInputs, 1)

NextSql ==
    \/ Tick
    \/ IngestOf(SqlPayloads)
    \/ \E t \in DOMAIN tasks : MatGet(t)
    \/ \E t \in DOMAIN tasks : MatInsert(t)
    \/ \E t \in DOMAIN tasks : MatRollup(t)
    \/ \E t \in DOMAIN tasks : MatDelete(t)
    \/ SqlQueryCall

SpecSql == Init /\ [][NextSql]_vars

(***************************************************************************)
(* Properties                                                              *)
(***************************************************************************)
\* the records the parser returned to ingest call c
ParsedOf(c) == Received[calls[c].payload].recs

MetaOf(c) == Payloads[calls[c].payload].meta_info

Successful == {c \in DOMAIN calls : calls[c].ok}

\* the fields every parser sets on a record
ParserFields ==
    {"user", "pid", "cpu_usage", "mem_usage", "vsz", "rss", "tty", "stat",
     "start_time", "duration", "command"}

\* the ingest call that this step made, if it made one
IngestStep == Len(calls') = Len(calls) + 1

\* C1: any two distinct successful ingest calls of one run, also two made
\* within the same clock second, obtained distinct batch_ids.
C1_BatchIdsDistinct ==
    \A c, d \in Successful : c # d => calls[c].batch_id # calls[d].batch_id

\* a durable row is the row of record r ingested with meta_info m
RowIs(row, r, m) ==
    /\ \A f \in ParserFields \ {"duration"} : row[f] = r[f]
    /\ row.timestamp = m.timestamp
    /\ row.machine_id = m.machine_id
    /\ row.machine_name = m.machine_name
    /\ row.os_type = m.os_type

\* how often record i of call c was ingested in all successful calls
TimesIngested(c, i) ==
    Cardinality({<<d, j>> \in Successful \X (1..MaxDataLines + 1) :
                    /\ j \in DOMAIN ParsedOf(d)
                    /\ ParsedOf(d)[j] = ParsedOf(c)[i]
                    /\ MetaOf(d) = MetaOf(c)})

TimesInDurable(c, i) ==
    Cardinality({n \in DOMAIN durable : RowIs(durable[n], ParsedOf(c)[i], MetaOf(c))})

\* C2: a record of a successful ingest is held by the staged batch of its call
\* until that call's materialize has read it, and once every materialize has
\* completed successfully each ingested record is in the durable store exactly
\* as often as it was ingested: none lost, none inserted twice.
C2_RecordsNeitherLostNorDoubled ==
    /\ \A c \in DOMAIN tasks :
          tasks[c].pc = "get" =>
             /\ tasks[c].batch_id \in DOMAIN staging
             /\ staging[tasks[c].batch_id] = DataToStore(MetaOf(c), ParsedOf(c))
    /\ (\A c \in DOMAIN tasks : tasks[c].outcome = "ok") =>
          \A c \in Successful : \A i \in DOMAIN ParsedOf(c) :
             TimesInDurable(c, i) = TimesIngested(c, i)

\* the lines of a listing, and the fields of one line
ListingLines(content) == SplitOn(Strip(content), NL)

\* a data line of a ps listing: the 10 leading fields, numbers where numbers
\* are due, and a COMMAND of one or more tokens
WellFormedPsLine(line) ==
    LET tokens == SplitWs(line)
    IN  /\ Len(tokens) >= 11
        /\ IsInt(tokens[2]) /\ IsFloat(tokens[3]) /\ IsFloat(tokens[4])
        /\ IsInt(tokens[5]) /\ IsInt(tokens[6])

\* a well-formed Unix listing: a header starting with USER and N >= 1 data lines
WellFormedPs(content) ==
    LET lines == ListingLines(content)
    IN  /\ Len(lines) >= 2
        /\ StartsWith(lines[1], S_USER)
        /\ \A i \in 2..Len(lines) : WellFormedPsLine(lines[i])

\* C3: for a well-formed Unix listing of N data lines UnixParser.parse returns
\* N records in input order, each command being the line's tokens from
\* position 10 on joined by single spaces.
C3_WellFormedListingParsed ==
    (parseOut.parser = "UnixParser" /\ WellFormedPs(parseIn)) =>
        LET lines == ListingLines(parseIn)
            recs  == parseOut.result.recs
        IN  /\ parseOut.result.ok
            /\ Len(recs) = Len(lines) - 1
            /\ \A i \in DOMAIN recs :
                  LET tokens == SplitWs(lines[i + 1])
                  IN  /\ recs[i].pid = IntVal(tokens[2])
                      /\ recs[i].command = Join(SliceFrom(tokens, 10), <<" ">>)

\* a data line that no check of the parser's data loop rejects
PlainPsLine(line) == WellFormedPsLine(line) /\ Len(SplitWs(line)) = 11

\* C4: on listings whose data lines are all in order, UnixParser.parse fails
\* exactly when the first line of the content does not start with USER or no
\* line follows it: the check is made on the header line, not on a data line.
C4_HeaderChecked ==
    LET lines == ListingLines(parseIn)
    IN  (/\ parseOut.parser = "UnixParser"
         /\ \A i \in 2..Len(lines) : PlainPsLine(lines[i]))
        => (~parseOut.result.ok <=> (~StartsWith(lines[1], S_USER) \/ Len(lines) < 2))

\* C5: a successful ingest adds exactly one entry to the staging store, under
\* the returned batch_id, holding the caller's four meta_info values and the
\* parsed records in parse order; record_count is the number of staged
\* records; the same payload given again succeeds again with that count.
C5_IngestStagesOneBatch ==
    [][(IngestStep /\ calls'[Len(calls')].ok) =>
          LET c      == Len(calls')
              id     == calls'[c].batch_id
              parsed == Received[calls'[c].payload].recs
              meta   == Payloads[calls'[c].payload].meta_info
          IN  /\ id \notin DOMAIN staging
              /\ DOMAIN staging' = DOMAIN staging \cup {id}
              /\ \A k \in DOMAIN staging : staging'[k] = staging[k]
              /\ \A k \in MetaKeys : staging'[id].meta_info[k] = meta[k]
              /\ Len(staging'[id].process_data) = Len(parsed)
              /\ \A i \in DOMAIN parsed : \A f \in ParserFields :
                    /\ f \in DOMAIN staging'[id].process_data[i]
                    /\ staging'[id].process_data[i][f] = parsed[i][f]
              /\ calls'[c].record_count = Len(staging'[id].process_data)
              /\ \A d \in DOMAIN calls :
                    calls[d].payload = calls'[c].payload =>
                       calls[d].ok /\ calls[d].record_count = calls'[c].record_count
      ]_vars

\* os_type or content is missing from the request
MissingField(data) == data.os_type = <<>> \/ data.content = <<>>

\* os_type is none of linux, unix, mac, windows, whatever its case
UnsupportedOs(data) == Lower(data.os_type) \notin {OsLinux, OsUnix, OsMac, OsWindows}

\* a ps listing one of whose lines after the first is out of shape
PsShapeViolation(data) ==
    LET lines == ListingLines(data.content)
    IN  /\ Lower(data.os_type) \in {OsLinux, OsUnix, OsMac}
        /\ \E i \in 2..Len(lines) : ~PlainPsLine(lines[i])

\* C6: an ingest call with os_type or content missing, with an unsupported
\* os_type or with a line out of shape fails, and a failing ingest call raises
\* to its caller, leaves the staging store, the durable store and the rollup
\* store as they were, stages no record and schedules no materialize task.
C6_FailedIngestChangesNothing ==
    [][IngestStep =>
          LET c    == Len(calls')
              data == Payloads[calls'[c].payload]
          IN  /\ (MissingField(data) \/ UnsupportedOs(data) \/ PsShapeViolation(data))
                    => ~calls'[c].ok
              /\ ~calls'[c].ok =>
                    /\ calls'[c].err # ""
                    /\ staging' = staging
                    /\ durable' = durable
                    /\ rollups' = rollups
                    /\ tasks' = tasks
      ]_vars

\* a call failed on a line out of shape while a batch was staged and its task waiting
C6_Witness ==
    \E c \in DOMAIN calls :
        /\ ~calls[c].ok
        /\ PsShapeViolation(Payloads[calls[c].payload])
        /\ \E t \in DOMAIN tasks : t < c /\ tasks[t].pc = "get"
        /\ staging # <<>>

\* task t returns in this step
Returns(t) == t \in DOMAIN tasks /\ tasks[t].pc # "done" /\ tasks'[t].pc = "done"

\* task t reads the staging store in this step
Reads(t) == t \in DOMAIN tasks /\ tasks[t].pc = "get" /\ tasks'[t].pc # "get"

\* the staged payload has no process_data or meta_info, or no record of it,
\* meta_info merged in, has a timestamp
StructurallyInvalid(data) ==
    \/ ~({"process_data", "meta_info"} \subseteq DOMAIN data)
    \/ \A i \in DOMAIN data.process_data :
          "timestamp" \notin DOMAIN data.process_data[i] \cup DOMAIN data.meta_info

SoftOutcomes == {"no_data", "missing_keys", "no_timestamp"}

\* C7: materialize of a batch_id absent from the staging store, or whose
\* staged payload is structurally invalid, returns normally and changes
\* neither the durable store nor the rollup store; the structurally invalid
\* batch is still in the staging store afterwards.
C7_SoftFailureChangesNothing ==
    [][\A t \in DOMAIN tasks :
          LET id == tasks[t].batch_id
          IN  (Reads(t) /\ (id \notin DOMAIN staging \/ StructurallyInvalid(staging[id])))
              => /\ Returns(t)
                 /\ tasks'[t].outcome \in SoftOutcomes
                 /\ durable' = durable
                 /\ rollups' = rollups
                 /\ id \in DOMAIN staging => (id \in DOMAIN staging' /\ staging'[id] = staging[id])
      ]_vars

\* one materialize found its batch gone, or found it without records and left
\* it staged, while rows and a rollup were there to be changed
C7_Witness ==
    /\ durable # <<>>
    /\ rollups # <<>>
    /\ \E t \in DOMAIN tasks :
          \/ tasks[t].outcome = "no_data" /\ tasks[t].batch_id \notin DOMAIN staging
          \/ /\ tasks[t].outcome = "no_timestamp"
             /\ tasks[t].batch_id \in DOMAIN staging
             /\ staging[tasks[t].batch_id].process_data = <<>>

\* C8 as stated: the staged batch is deleted by materialize both when it
\* succeeds and when it ends in a structurally-invalid failure.
C8_DeletedAlsoWhenInvalid ==
    [][\A t \in DOMAIN tasks :
          (Returns(t) /\ tasks'[t].outcome \in {"ok", "missing_keys", "no_timestamp"})
              => tasks[t].batch_id \notin DOMAIN staging'
      ]_vars

\* C8 amended: the staged batch is deleted by a materialize that succeeds; one
\* that ends in a structurally-invalid failure leaves it in the staging store.
C8_DeletedOnSuccessOnly ==
    [][\A t \in DOMAIN tasks :
          /\ (Returns(t) /\ tasks'[t].outcome = "ok")
                => tasks[t].batch_id \notin DOMAIN staging'
          /\ (Returns(t) /\ tasks'[t].outcome \in {"missing_keys", "no_timestamp"})
                => tasks[t].batch_id \in DOMAIN staging'
      ]_vars

\* one materialize succeeded and its batch is gone, another ended on a batch
\* without records, which is still staged
C8_Witness ==
    \E t, u \in DOMAIN tasks :
        /\ tasks[t].outcome = "ok"
        /\ tasks[t].batch_id \notin DOMAIN staging
        /\ tasks[u].outcome = "no_timestamp"
        /\ tasks[u].batch_id \in DOMAIN staging

\* C9: when the durable-store insert of a batch fails, the materialize call
\* ends with the error, no row of the batch has been added, no rollup has been
\* written, the call has not touched the staging store (a batch no other task
\* shares is still staged), and the task never runs again.
C9_FailedInsertIsAtomic ==
    [][\A t \in DOMAIN tasks :
          /\ (tasks[t].pc = "insert" /\ tasks'[t].outcome = "insert_failed")
                => /\ Returns(t)
                   /\ durable' = durable
                   /\ rollups' = rollups
                   /\ staging' = staging
                   /\ (\A u \in DOMAIN tasks \ {t} : tasks[u].batch_id # tasks[t].batch_id)
                         => tasks[t].batch_id \in DOMAIN staging'
          /\ tasks[t].outcome = "insert_failed" => tasks'[t] = tasks[t]
      ]_vars

\* an insert of two rows failed after another batch had been materialized
C9_Witness ==
    \E t \in DOMAIN tasks :
        /\ tasks[t].outcome = "insert_failed"
        /\ tasks[t].batch_id \in DOMAIN staging
        /\ Len(staging[tasks[t].batch_id].process_data) > 1
        /\ durable # <<>>
        /\ rollups # <<>>

\* the commands in a list of {command, value} entries
CommandsIn(top) == {top[i].command : i \in DOMAIN top}

\* C10: the rollup stored under a partition key is computed from the records
\* of the batch that was materialized last for that key, and from nothing
\* else: sums, count and top lists hold nothing of an earlier batch.
C10_RollupOfLastBatchOnly ==
    \A k \in DOMAIN rollups :
        LET rows     == rollupBy[k].df
            commands == {rows[i].command : i \in DOMAIN rows}
        IN  /\ rollups[k].total_cpu_usage = SumOf(rows, "cpu_usage")
            /\ rollups[k].total_memory_usage = SumOf(rows, "mem_usage")
            /\ rollups[k].process_count = Cardinality(commands)
            /\ CommandsIn(rollups[k].top_cpu_processes) = commands
            /\ CommandsIn(rollups[k].top_memory_processes) = commands
            /\ Len(rollups[k].top_cpu_processes) = Len(rows)
            /\ Len(rollups[k].top_memory_processes) = Len(rows)

\* two batches of one partition key, with different records, were materialized
\* one after the other
C10_Witness ==
    \E t, u \in DOMAIN tasks : \E k \in DOMAIN rollups :
        /\ tasks[t].outcome = "ok" /\ tasks[u].outcome = "ok"
        /\ t \in tasks[u].after
        /\ rollupBy[k].task = u
        /\ MetaOf(t).os_type = MetaOf(u).os_type
        /\ PeriodDay(MetaOf(t).timestamp) = PeriodDay(MetaOf(u).timestamp)
        /\ k = PartitionKey(MetaOf(u).timestamp, MetaOf(u).os_type)
        /\ calls[t].batch_id # calls[u].batch_id
        /\ ParsedOf(t) # <<>>
        /\ ParsedOf(t) # ParsedOf(u)

\* the place of row i when the rows are put in descending order of col, equal
\* values staying in the order they came in
RankOf(rows, i, col) ==
    1 + Cardinality({j \in DOMAIN rows :
                        \/ rows[j][col] > rows[i][col]
                        \/ rows[j][col] = rows[i][col] /\ j < i})

\* top is the list of the TopN first rows in that order, as {command, value}
TopListOf(top, rows, col) ==
    /\ Len(top) = IF Len(rows) < TopN THEN Len(rows) ELSE TopN
    /\ \A i \in DOMAIN rows :
          RankOf(rows, i, col) <= TopN
             => top[RankOf(rows, i, col)] = [c \in {"command", col} |-> rows[i][c]]

\* C11: the rollup a materialize writes for a partition key holds, over the
\* batch's records with that key, the sum of cpu_usage, the sum of mem_usage,
\* the number of distinct commands, and the at most 10 {command, value}
\* entries of highest cpu_usage and of highest mem_usage, in descending order
\* with equal values in encounter order.
C11_RollupFormula ==
    \A k \in DOMAIN rollups :
        LET rows == rollupBy[k].df
        IN  /\ \A i \in DOMAIN rows : rows[i].partition_key = k
            /\ rollups[k].total_cpu_usage = SumOf(rows, "cpu_usage")
            /\ rollups[k].total_memory_usage = SumOf(rows, "mem_usage")
            /\ rollups[k].process_count =
                   Cardinality({rows[i].command : i \in DOMAIN rows})
            /\ DOMAIN rollups[k] =
                   {"total_cpu_usage", "total_memory_usage", "process_count",
                    "top_cpu_processes", "top_memory_processes"}
            /\ TopListOf(rollups[k].top_cpu_processes, rows, "cpu_usage")
            /\ TopListOf(rollups[k].top_memory_processes, rows, "mem_usage")

\* a rollup of more than 10 records, where a record left out of the cpu list
\* has the cpu_usage of one that is in it
C11_Witness ==
    \E k \in DOMAIN rollups :
        LET rows == rollupBy[k].df
        IN  /\ Len(rows) > TopN
            /\ Len(rollups[k].top_cpu_processes) = TopN
            /\ \E i, j \in DOMAIN rows :
                  /\ rows[i].cpu_usage = rows[j].cpu_usage
                  /\ RankOf(rows, i, "cpu_usage") <= TopN
                  /\ RankOf(rows, j, "cpu_usage") > TopN
                  /\ rows[i].command # rows[j].command

\* the planner returned an optimized query
Planned == plan.done /\ plan.err = ""

\* C12: for every integer limit handed to the planner, 0, negative ones and
\* ones above 1000 included, and for a limit that is not set, the limit after
\* the optimize stage lies in 1..1000; a limit that is not set or falsy
\* becomes 100 and a limit above 1000 becomes 1000.
C12_LimitInRange ==
    Planned =>
        /\ plan.optimized.limit \in 1..MaxLimit
        /\ plan.params.limit \in {None, Some(0)} => plan.optimized.limit = DefaultLimit
        /\ (plan.params.limit # None /\ plan.params.limit[1] > MaxLimit)
              => plan.optimized.limit = MaxLimit

\* C13: for every integer offset handed to the planner the optimize stage
\* returns, and the offset after it is max(offset, 0): a negative offset
\* becomes 0, any other is unchanged.
C13_OffsetClamped ==
    (plan.done /\ plan.params.offset # None) =>
        /\ plan.err = ""
        /\ plan.params.offset[1] < 0 => plan.optimized.offset = 0
        /\ plan.params.offset[1] >= 0 => plan.optimized.offset = plan.params.offset[1]

\* a negative offset was handed over and 0 came out
C13_Witness ==
    /\ Planned
    /\ plan.params.offset # None
    /\ plan.params.offset[1] < 0
    /\ plan.optimized.offset = 0

\* C14: after the optimize stage start_time <= end_time and the range is at
\* most 365 days; for two supplied times the later one is end_time, and
\* start_time is the earlier one, or end_time - 365 days when the earlier one
\* lies more than 365 days before.
C14_TimeRangeOrderedAndBounded ==
    Planned =>
        /\ plan.optimized.start_time <= plan.optimized.end_time
        /\ plan.optimized.end_time - plan.optimized.start_time <= MaxTimeRangeDays * TsPerDay
        /\ (plan.params.start_time # None /\ plan.params.end_time # None) =>
              LET a  == plan.params.start_time[1]
                  b  == plan.params.end_time[1]
                  lo == IF a > b THEN b ELSE a
                  hi == IF a > b THEN a ELSE b
              IN  /\ plan.optimized.end_time = hi
                  /\ hi - lo > MaxTimeRangeDays * TsPerDay
                        => plan.optimized.start_time = hi - MaxTimeRangeDays * TsPerDay
                  /\ hi - lo <= MaxTimeRangeDays * TsPerDay
                        => plan.optimized.start_time = lo

\* two times were supplied in the wrong order and more than 365 days apart
C14_Witness ==
    /\ Planned
    /\ plan.params.start_time # None /\ plan.params.end_time # None
    /\ plan.params.start_time[1] > plan.params.end_time[1]
    /\ plan.params.start_time[1] - plan.params.end_time[1] > MaxTimeRangeDays * TsPerDay
    /\ plan.optimized.end_time = plan.params.start_time[1]
    /\ plan.optimized.start_time > plan.params.end_time[1]

\* the characters of a name before its first underscore
PrefixOf(name) ==
    LET marks == {i \in DOMAIN name : name[i] = "_"}
    IN  IF marks = {} THEN name
        ELSE SubSeq(name, 1, (CHOOSE i \in marks : \A j \in marks : i <= j) - 1)

\* count, sum, avg, min, max in that order, then everything else
PriorityOf(name) ==
    CASE PrefixOf(name) = S_count -> 0
      [] PrefixOf(name) = S_sum   -> 1
      [] PrefixOf(name) = S_avg   -> 2
      [] PrefixOf(name) = S_min   -> 3
      [] PrefixOf(name) = S_max   -> 4
      [] OTHER                    -> 5

\* where a name is first found in a list
FirstAt(list, name) ==
    CHOOSE i \in DOMAIN list : list[i] = name /\ \A j \in 1..(i - 1) : list[j] # name

\* C15: the optimize stage returns the aggregation names without duplicates,
\* a permutation of the distinct names given, in the order count, sum, avg,
\* min, max of the prefix before the first underscore, names of any other
\* prefix last; names of equal priority stay in the order of their first
\* occurrence.
C15_AggregationsDedupedAndSorted ==
    Planned =>
        LET given == plan.params.aggregations
            out   == plan.optimized.aggregations
        IN  /\ {out[i] : i \in DOMAIN out} = {given[i] : i \in DOMAIN given}
            /\ \A i, j \in DOMAIN out : i # j => out[i] # out[j]
            /\ \A i, j \in DOMAIN out :
                  i < j =>
                     \/ PriorityOf(out[i]) < PriorityOf(out[j])
                     \/ /\ PriorityOf(out[i]) = PriorityOf(out[j])
                        /\ FirstAt(given, out[i]) < FirstAt(given, out[j])

\* a list with a name given twice, a name without a known prefix ahead of one
\* with a known prefix, and two names of the same prefix
C15_Witness ==
    /\ Planned
    /\ LET given == plan.params.aggregations
       IN  /\ Len(plan.optimized.aggregations) < Len(given)
           /\ PriorityOf(given[1]) = 5
           /\ \E i, j \in DOMAIN given :
                 /\ i < j
                 /\ given[i] # given[j]
                 /\ PriorityOf(given[i]) = PriorityOf(given[j])
                 /\ PriorityOf(given[i]) < 5

\* C16: for a query whose type is not real_time the pre-aggregated store is
\* chosen exactly when the aggregation list is not empty and each of its names
\* is total_cpu_usage, total_memory_usage or process_count; in every other
\* case the primary store is chosen.
C16_SourceSelection ==
    (Planned /\ plan.params.type # Some(S_real_time)) =>
        LET given == plan.params.aggregations
            rolled == /\ given # <<>>
                      /\ \A i \in DOMAIN given :
                            given[i] \in {AggTotalCpuUsage, AggTotalMemoryUsage, AggProcessCount}
        IN  /\ rolled => plan.data_source = "pre_aggregated_store"
            /\ ~rolled => plan.data_source = "sql_store"

\* a list of a pre-aggregated name and another name went to the primary store
C16_Witness ==
    /\ Planned
    /\ plan.params.type # Some(S_real_time)
    /\ plan.data_source = "sql_store"
    /\ \E i, j \in DOMAIN plan.params.aggregations :
          /\ plan.params.aggregations[i] = AggProcessCount
          /\ plan.params.aggregations[j] = AggAvgCpu

\* C17: a query of type real_time always ends in NotImplementedError,
\* whatever its other parameters, and has read neither the durable store nor
\* the rollup store nor the cache.
C17_RealTimeNotImplemented ==
    \A i \in DOMAIN queries :
        queries[i].params.type = Some(S_real_time) =>
            /\ queries[i].err = "NotImplementedError"
            /\ queries[i].lookups = <<>>
            /\ queries[i].reads = <<>>
            /\ ~queries[i].sql_read

\* the query call that this step made, if it made one
QueryStep == Len(queries') = Len(queries) + 1

\* the days from start_time's to end_time's of an optimized query
FirstDay(q) == PeriodDay(q.optimized.start_time)

DaysOf(q) == PeriodDay(q.optimized.end_time) - PeriodDay(q.optimized.start_time) + 1

\* the rollups among the answers of the lookups that are not empty, in order
FoundIn(answers) == SelectSeq(answers, LAMBDA a : a # <<>>)

\* C18: a pre-aggregated query with an os_type filter X looks up, for every
\* date D from start_time's to end_time's, exactly the partition key D_X, and
\* returns the non-empty rollups found under those keys, in date order.
C18_FilteredQueryLooksUpItsOsType ==
    \A i \in DOMAIN queries :
        LET q == queries[i]
        IN  (q.data_source = "pre_aggregated_store" /\ q.params.os_type # None) =>
                /\ q.lookups = [d \in 1..DaysOf(q) |->
                                   <<FirstDay(q) + d - 1, q.params.os_type[1]>>]
                /\ Len(q.answers) = Len(q.lookups)
                /\ q.result = FoundIn(q.answers)

\* what a lookup of a key gives: the cached value if the key is cached, else
\* what the rollup store holds
FoundFor(key) ==
    IF \E j \in DOMAIN cache : cache[j].key = key
    THEN cache[CHOOSE j \in DOMAIN cache : cache[j].key = key].value
    ELSE IF key \in DOMAIN rollups THEN rollups[key] ELSE <<>>

\* C19: a pre-aggregated query without an os_type filter visits every date
\* from start_time's to end_time's and within each date windows, linux, mac
\* in that order; it ends after these lookups, and its rows are the non-empty
\* rollups found, in that order.
C19_UnfilteredQueryOrder ==
    [][QueryStep =>
          LET q == queries'[Len(queries')]
          IN  (q.data_source = "pre_aggregated_store" /\ q.params.os_type = None) =>
                  /\ q.err = ""
                  /\ Len(q.lookups) = 3 * DaysOf(q)
                  /\ \A d \in 0..(DaysOf(q) - 1) :
                        /\ q.lookups[3 * d + 1] = <<FirstDay(q) + d, OsWindows>>
                        /\ q.lookups[3 * d + 2] = <<FirstDay(q) + d, OsLinux>>
                        /\ q.lookups[3 * d + 3] = <<FirstDay(q) + d, OsMac>>
                  /\ q.answers = [k \in DOMAIN q.lookups |-> FoundFor(q.lookups[k])]
                  /\ q.result = FoundIn(q.answers)
                  /\ q.total_count = Len(q.result)
      ]_vars

\* a query without os_type returned the rollup of a linux batch of the first
\* day ahead of the rollup of a windows batch of the second day
C19_Witness ==
    \E i \in DOMAIN queries :
        LET q == queries[i]
        IN  /\ q.data_source = "pre_aggregated_store"
            /\ q.params.os_type = None
            /\ Len(q.result) = 2
            /\ <<FirstDay(q), OsLinux>> \in DOMAIN rollups
            /\ <<FirstDay(q) + 1, OsWindows>> \in DOMAIN rollups
            /\ q.result[1] = rollups[<<FirstDay(q), OsLinux>>]
            /\ q.result[2] = rollups[<<FirstDay(q) + 1, OsWindows>>]
            /\ q.result[1] # q.result[2]

\* the place of a key in the cache, 0 when it is not cached
PlaceOf(cached, key) ==
    IF \E j \in DOMAIN cached : cached[j].key = key
    THEN CHOOSE j \in DOMAIN cached : cached[j].key = key
    ELSE 0

\* C20: the rollup read cache never holds more than 128 partition keys; a
\* lookup of a cached key is answered from the cache without a read of the
\* rollup store and makes the key the most recently used; a lookup of a key
\* that is not cached reads the rollup store once and, when the cache is full,
\* evicts the least recently used key.
C20_CacheIsLru128 ==
    [][lookup' # lookup =>
          LET key   == lookup'.key
              place == PlaceOf(cache, key)
              entry == cache'[Len(cache')]
              rest  == SubSeq(cache', 1, Len(cache') - 1)
          IN  /\ Len(cache') <= CacheSize
              /\ \A i, j \in DOMAIN cache' : i # j => cache'[i].key # cache'[j].key
              /\ entry = [key |-> key, value |-> lookup'.answer]
              /\ place # 0 =>
                    /\ lookup'.reads = <<>>
                    /\ lookup'.answer = cache[place].value
                    /\ rest = SubSeq(cache, 1, place - 1)
                                 \o SubSeq(cache, place + 1, Len(cache))
              /\ place = 0 =>
                    /\ lookup'.reads = <<key>>
                    /\ lookup'.answer = IF key \in DOMAIN rollups THEN rollups[key]
                                        ELSE <<>>
                    /\ Len(cache) < CacheSize => rest = cache
                    /\ Len(cache) >= CacheSize => rest = Tail(cache)
      ]_vars

\* the cache is full, its first key was used again before it filled up and is
\* still cached, while keys that came after it have been evicted
C20_Witness ==
    /\ Len(cache) = CacheSize
    /\ lookup.hits > 0
    /\ lookup.evictions > 1
    /\ KeyNo(1) \in CachedKeys
    /\ KeyNo(2) \notin CachedKeys
    /\ KeyNo(3) \notin CachedKeys

\* the places at which a query looked up a key
PlacesOf(q, key) == {p \in DOMAIN q.lookups : q.lookups[p] = key}

\* C21: a materialize that overwrites the rollup of a cached partition key
\* leaves the cached entry as it is; a pre-aggregated query covering the key
\* returns the cached, old rollup as long as the key is cached, the key leaves
\* the cache only by eviction from the full cache, and a query made after
\* that returns the rollup the store holds now.
C21_StaleUntilEvicted ==
    [][/\ ~QueryStep => cache' = cache
       /\ \A key \in CachedKeys :
             PlaceOf(cache', key) = 0 => QueryStep /\ Len(cache') = CacheSize
       /\ QueryStep =>
             LET q == queries'[Len(queries')]
             IN  q.data_source = "pre_aggregated_store" =>
                    \A key \in DOMAIN rollups : \A p \in PlacesOf(q, key) :
                       /\ (PlaceOf(cache, key) # 0
                              /\ Len(cache) + Len(q.lookups) <= CacheSize)
                             => /\ q.answers[p] = cache[PlaceOf(cache, key)].value
                                /\ q.answers[p] \in {q.result[n] : n \in DOMAIN q.result}
                                /\ key \notin {q.reads[n] : n \in DOMAIN q.reads}
                       /\ PlaceOf(cache, key) = 0
                             => /\ q.answers[p] = rollups[key]
                                /\ p \notin q.stale
      ]_vars

\* a query returned the old rollup of a key whose rollup had been overwritten,
\* a later query evicted the key, and the query after that returned the
\* rollup the store holds
C21_Witness ==
    \E i, j, k \in DOMAIN queries : \E key \in DOMAIN rollups :
        /\ i < j /\ j < k
        /\ \E p \in PlacesOf(queries[i], key) :
              /\ p \in queries[i].stale
              /\ queries[i].answers[p] # rollups[key]
              /\ queries[i].answers[p] # EmptyDict
        /\ PlacesOf(queries[j], key) = {}
        /\ queries[j].cache = CacheSize
        /\ \E p \in PlacesOf(queries[k], key) :
              /\ queries[k].answers[p] = rollups[key]
              /\ key \in {queries[k].reads[n] : n \in DOMAIN queries[k].reads}

\* an Optional filter that is given, and one given with a text that is not empty
Given(o) == o # None

GivenText(o) == o # None /\ o[1] # <<>>

\* a durable row passes the filters of query q, Present telling which of the
\* text filters count as present
SqlMatch(q, row, Present(_)) ==
    /\ row.timestamp >= q.optimized.start_time
    /\ row.timestamp <= q.optimized.end_time
    /\ Present(q.params.os_type) => row.os_type = q.params.os_type[1]
    /\ Present(q.params.machine_id) => row.machine_id = q.params.machine_id[1]
    /\ Present(q.params.command)
          => Contains(Lower(row.command), Lower(q.params.command[1]))
    /\ Given(q.params.cpu_usage_gt) => row.cpu_usage > q.params.cpu_usage_gt[1]
    /\ Given(q.params.memory_usage_gt) => row.mem_usage > q.params.memory_usage_gt[1]

\* a primary-store query without aggregations that returned
PlainSql(q) == q.data_source = "sql_store" /\ q.params.aggregations = <<>> /\ q.err = ""

\* the query of this step returned distinct durable rows that pass its
\* filters, as many as limit and offset leave of all that pass
SqlResultIsFiltered(Present(_)) ==
    QueryStep =>
        LET q        == queries'[Len(queries')]
            matching == {n \in DOMAIN durable : SqlMatch(q, durable[n], Present)}
            rest     == IF Cardinality(matching) > q.optimized.offset
                        THEN Cardinality(matching) - q.optimized.offset ELSE 0
        IN  PlainSql(q) =>
                /\ \A i \in DOMAIN q.result :
                      \E n \in matching : q.result[i] = RowToDict(durable[n])
                /\ \A i, j \in DOMAIN q.result : i # j => q.result[i].id # q.result[j].id
                /\ Len(q.result) <= q.optimized.limit
                /\ Len(q.result) = IF rest > q.optimized.limit THEN q.optimized.limit
                                   ELSE rest
                /\ q.total_count = Len(q.result)

MemUsageText(line) == SplitWs(line)[5]

\* C23: WindowsParser.parse sets mem_usage to 0.0 when the Mem Usage field is
\* N/A or no number, and to the number with its thousands separators and K
\* removed otherwise; every Windows record has cpu_usage 0, vsz 0, rss 0 and
\* user, stat, start_time, duration equal to "N/A".
C23_WindowsRecordFields ==
    (parseOut.parser = "WindowsParser" /\ parseOut.result.ok) =>
        LET lines == SplitLines(parseIn)
            recs  == parseOut.result.recs
            first == Len(lines) - Len(recs)
        IN  \A i \in DOMAIN recs :
               LET text   == MemUsageText(lines[first + i])
                   digits == Remove(text, ",")
               IN  /\ recs[i].mem_usage =
                          IF text = S_NA \/ \E j \in DOMAIN digits : ~IsDigit(digits[j])
                          THEN 0
                          ELSE 10 * DecVal(digits)
                   /\ recs[i].cpu_usage = 0
                   /\ recs[i].vsz = 0
                   /\ recs[i].rss = 0
                   /\ recs[i].user = S_NA
                   /\ recs[i].stat = S_NA
                   /\ recs[i].start_time = S_NA
                   /\ recs[i].duration = S_NA

\* a tasklist listing with a memory of 5,120 K and one of N/A was parsed
C23_Witness ==
    /\ parseOut.parser = "WindowsParser"
    /\ parseOut.result.ok
    /\ Len(parseOut.result.recs) = 2
    /\ parseOut.result.recs[1].mem_usage = 51200
    /\ parseOut.result.recs[2].mem_usage = 0
    /\ MemUsageText(SplitLines(parseIn)[Len(SplitLines(parseIn))]) = S_NA

\* the rows of the table from place base + 1 on carry, in the fields named,
\* the values the parser returned to ingest call c, and the meta_info of the call
CarriedFrom(table, base, c, fields) ==
    \A i \in DOMAIN ParsedOf(c) :
        /\ base + i \in DOMAIN table
        /\ \A f \in fields : table[base + i][f] = ParsedOf(c)[i][f]
        /\ \A k \in MetaKeys : table[base + i][k] = MetaOf(c)[k]

\* the call of task t got a batch_id that no other call of the run got
OwnBatch(t) == \A c \in DOMAIN calls \ {t} : calls[c].batch_id # calls[t].batch_id

\* the frame materialize builds of the batch of ingest call c
FrameOf(c) == DataFrame(DataToStore(MetaOf(c), ParsedOf(c)))

\* tasks t and u ran at the same time: neither had returned when the other started
Overlapping(t, u) == t # u /\ u \notin tasks[t].after /\ t \notin tasks[u].after

\* the partition key of the batch of ingest call c
KeyOf(c) == PartitionKey(MetaOf(c).timestamp, MetaOf(c).os_type)

\* C24: when two materialize calls whose batches share a partition key run
\* concurrently, each write of the rollup puts the rollup of the writing
\* call's batch in place of whatever was stored, so the rollup stored after
\* both is exactly that of the batch written last, never a combination, and
\* the durable store holds the rows of both batches.
C24_LastRollupWriteWins ==
    /\ [][\A t \in DOMAIN tasks :
             (tasks[t].pc = "rollup" /\ tasks'[t].pc # "rollup") =>
                \A k \in PartitionKeys(tasks[t].df) :
                   rollups'[k] = AggregatedData(PartitionOf(tasks[t].df, k))
         ]_vars
    /\ [](\A k \in DOMAIN rollups : rollups[k] = AggregatedData(rollupBy[k].df))
    /\ [](\A t, u \in DOMAIN tasks :
             (/\ Overlapping(t, u)
              /\ tasks[t].outcome = "ok" /\ tasks[u].outcome = "ok"
              /\ OwnBatch(t) /\ OwnBatch(u)
              /\ KeyOf(t) = KeyOf(u))
             => /\ KeyOf(t) \in DOMAIN rollups
                /\ \A c \in {t, u} :
                      /\ rollupBy[KeyOf(t)].task = c
                            => rollups[KeyOf(t)] = AggregatedData(FrameOf(c))
                      /\ \E base \in 0..Len(durable) :
                            CarriedFrom(durable, base, c, ParserFields \ {"duration"}))

\* two batches of one partition key and different records were materialized
\* at the same time, and the call that started first wrote the rollup last
C24_Witness ==
    \E t, u \in DOMAIN tasks :
        /\ t < u
        /\ Overlapping(t, u)
        /\ tasks[t].outcome = "ok" /\ tasks[u].outcome = "ok"
        /\ calls[t].batch_id # calls[u].batch_id
        /\ KeyOf(t) = KeyOf(u)
        /\ ParsedOf(t) # <<>>
        /\ ParsedOf(u) # <<>>
        /\ ParsedOf(t) # ParsedOf(u)
        /\ rollupBy[KeyOf(t)].task = t
        /\ rollups[KeyOf(t)] # AggregatedData(FrameOf(u))

\* the rows of a frame are in the table, next to each other and in their order
RowsIn(table, df) ==
    \E base \in 0..(Len(table) - Len(df)) :
        \A i \in DOMAIN df : table[base + i] = InsertedRow(df[i], base + i)

\* C25: within one materialize call the durable insert comes first, the
\* rollup write second and the staging delete last: the rows of a batch whose
\* rollup has been written are in the durable store, a call that is about to
\* delete its batch has written its rows and its rollup, and a batch leaves
\* the staging store only in the last step of a call that succeeds.
C25_InsertRollupDeleteOrder ==
    /\ [](\A k \in DOMAIN rollups : RowsIn(durable, rollupBy[k].df))
    /\ [](\A t \in DOMAIN tasks :
             /\ tasks[t].pc \in {"rollup", "delete"} => RowsIn(durable, tasks[t].df)
             /\ tasks[t].pc = "delete" =>
                   \A k \in PartitionKeys(tasks[t].df) :
                      /\ k \in DOMAIN rollups
                      /\ rollupBy[k].task = t
                            => rollups[k] = AggregatedData(PartitionOf(tasks[t].df, k)))
    /\ [][/\ \A t \in DOMAIN tasks :
                (tasks[t].outcome # "ok" /\ tasks'[t].outcome = "ok")
                   => /\ tasks[t].pc = "delete"
                      /\ tasks[t].batch_id \notin DOMAIN staging'
          /\ \A id \in DOMAIN staging \ DOMAIN staging' :
                \E t \in DOMAIN tasks :
                   /\ tasks[t].batch_id = id
                   /\ tasks[t].pc = "delete"
                   /\ tasks'[t].outcome = "ok"
         ]_vars

\* one call has succeeded and its batch is gone, another has written rows and
\* rollup of a batch of two records and has not yet deleted it
C25_Witness ==
    \E t, u \in DOMAIN tasks :
        /\ tasks[t].outcome = "ok"
        /\ tasks[t].batch_id \notin DOMAIN staging
        /\ tasks[u].pc = "delete"
        /\ Len(tasks[u].df) = 2
        /\ tasks[u].batch_id \in DOMAIN staging
        /\ \A k \in PartitionKeys(tasks[u].df) : rollupBy[k].task = u

WritesRollup(t) == t \in DOMAIN tasks /\ tasks[t].pc = "rollup" /\ tasks'[t].pc # "rollup"

\* C27: a materialize call writes a rollup under one partition key only, the
\* day of its batch's meta_info.timestamp with its meta_info.os_type, and
\* leaves the rollup of every other partition key as it was; no other step
\* changes a rollup.
C27_RollupOfOwnKeyOnly ==
    [][/\ \A t \in DOMAIN tasks :
             WritesRollup(t) =>
                LET meta == tasks[t].df[1]
                    key  == <<meta.timestamp \div TsPerDay, meta.os_type>>
                IN  /\ \A i \in DOMAIN tasks[t].df :
                          /\ tasks[t].df[i].timestamp = meta.timestamp
                          /\ tasks[t].df[i].os_type = meta.os_type
                    /\ OwnBatch(t) => /\ meta.timestamp = MetaOf(t).timestamp
                                      /\ meta.os_type = MetaOf(t).os_type
                    /\ DOMAIN rollups' = DOMAIN rollups \cup {key}
                    /\ \A k \in DOMAIN rollups \ {key} : rollups'[k] = rollups[k]
       /\ rollups' # rollups => \E t \in DOMAIN tasks : WritesRollup(t)
      ]_vars

\* the rollups of two partition keys are stored, written by two calls, the
\* second of which left the first one's rollup in place
C27_Witness ==
    \E t, u \in DOMAIN tasks :
        /\ t \in tasks[u].after
        /\ tasks[u].outcome = "ok"
        /\ KeyOf(t) # KeyOf(u)
        /\ KeyOf(t) \in DOMAIN rollups /\ KeyOf(u) \in DOMAIN rollups
        /\ rollupBy[KeyOf(t)].task = t
        /\ rollupBy[KeyOf(u)].task = u
        /\ rollups[KeyOf(t)] # rollups[KeyOf(u)]

\* max(0, x)
Floored(x) == IF x < 0 THEN 0 ELSE x

\* C28: the cpu_usage and mem_usage thresholds the primary-store execution
\* applies are max(0, cpu_usage_gt) and max(0, memory_usage_gt): a query with
\* a negative threshold returns only rows whose value is above 0.
C28_ThresholdsFloored ==
    [][QueryStep =>
          LET q == queries'[Len(queries')]
          IN  PlainSql(q) =>
                 \A i \in DOMAIN q.result :
                    /\ Given(q.params.cpu_usage_gt)
                          => q.result[i].cpu_usage > Floored(q.params.cpu_usage_gt[1])
                    /\ Given(q.params.memory_usage_gt)
                          => q.result[i].mem_usage > Floored(q.params.memory_usage_gt[1])
      ]_vars

\* C29: no query, on the primary-store or the pre-aggregated path, changes
\* the durable store, the rollup store or the staging store; a rollup is
\* created or overwritten by a materialize call only, and the read cache is
\* all a query changes, on the pre-aggregated path.
C29_QueriesWriteNoStore ==
    [][/\ QueryStep =>
             /\ durable' = durable
             /\ rollups' = rollups
             /\ staging' = staging
             /\ tasks' = tasks
             /\ queries'[Len(queries')].data_source # "pre_aggregated_store"
                   => cache' = cache
       /\ rollups' # rollups => \E t \in DOMAIN tasks : WritesRollup(t)
      ]_vars

\* a pre-aggregated query found a rollup and cached it, and a primary-store
\* query returned a row, while a batch was staged
C29_Witness ==
    /\ staging # <<>>
    /\ \E j \in DOMAIN cache : cache[j].value # EmptyDict
    /\ \E i, j \in DOMAIN queries :
          /\ queries[i].data_source = "pre_aggregated_store"
          /\ queries[i].result # <<>>
          /\ queries[j].data_source = "sql_store"
          /\ queries[j].result # <<>>

\* the batch of ingest call c is staged no longer and its records are durable
Materialized(c) ==
    /\ calls[c].batch_id \notin DOMAIN staging
    /\ \A i \in DOMAIN ParsedOf(c) : TimesInDurable(c, i) >= 1

\* C30: for every successful ingest, whatever its record_count, 0 included,
\* once its materialize task has run with a durable insert that does not
\* fail, the batch is eventually absent from the staging store and its
\* records are in the durable store.
C30_StagedBatchIsMaterialized ==
    \A c \in 1..MaxIngest :
        (c \in DOMAIN calls /\ calls[c].ok)
            ~> (/\ c \in DOMAIN tasks
                /\ tasks[c].outcome = "insert_failed" \/ Materialized(c))

\* the keys the cache holds with the {} of a lookup that found no rollup
CachedEmpty(cached) == {cached[j].key : j \in {n \in DOMAIN cached : cached[n].value = EmptyDict}}

\* C31: the lookup of a partition key the rollup store has no entry for puts
\* the empty result in the cache; no step but the eviction from the full
\* cache by a query takes it out or changes it, not even the materialize that
\* writes a rollup for the key; and a pre-aggregated query that finds the key
\* cached with the empty result answers the lookup with it, leaves the key's
\* rollup out of its result and does not read the rollup store for the key.
C31_EmptyResultIsCached ==
    [][/\ \A key \in CachedEmpty(cache) :
             \/ key \in CachedEmpty(cache')
             \/ QueryStep /\ PlaceOf(cache', key) = 0 /\ Len(cache') = CacheSize
       /\ QueryStep =>
             LET q == queries'[Len(queries')]
             IN  q.data_source = "pre_aggregated_store" =>
                    /\ \A p \in DOMAIN q.lookups :
                          (q.lookups[p] \notin DOMAIN rollups /\ PlaceOf(cache, q.lookups[p]) = 0)
                             => q.lookups[p] \in CachedEmpty(cache')
                    /\ \A key \in CachedEmpty(cache) : \A p \in PlacesOf(q, key) :
                          Len(cache) + Len(q.lookups) <= CacheSize
                             => /\ q.answers[p] = EmptyDict
                                /\ key \notin {q.reads[n] : n \in DOMAIN q.reads}
                                /\ Len(q.result) =
                                      Cardinality({n \in DOMAIN q.answers :
                                                      q.answers[n] # EmptyDict})
                                /\ key \in DOMAIN rollups
                                      => /\ p \in q.stale
                                         /\ Len(q.result) <
                                               Cardinality({n \in DOMAIN q.lookups :
                                                    q.lookups[n] \in DOMAIN rollups})
      ]_vars

\* a query looked a key up while the rollup store had no entry for it, a
\* materialize then wrote a rollup for the key, and a later query answered the
\* key with the empty result, without reading the rollup store
C31_Witness ==
    \E i, j \in DOMAIN queries : \E key \in DOMAIN rollups :
        /\ i < j
        /\ key \in {queries[i].reads[n] : n \in DOMAIN queries[i].reads}
        /\ \E p \in PlacesOf(queries[i], key) : queries[i].answers[p] = EmptyDict
        /\ \E p \in PlacesOf(queries[j], key) :
              /\ queries[j].answers[p] = EmptyDict
              /\ p \in queries[j].stale
        /\ key \notin {queries[j].reads[n] : n \in DOMAIN queries[j].reads}
        /\ key \in CachedEmpty(cache)

\* the partition keys of the rollup store whose os part is not in the default list
OtherOsKeys ==
    {k \in DOMAIN rollups : k[2] \notin {DefaultOsTypes[n] : n \in DOMAIN DefaultOsTypes}}

\* C32: a pre-aggregated query without an os_type filter looks up, for each
\* day of its range, the keys of windows, linux and mac and no other key, so
\* the rollup materialize wrote under a key with another os tag the parser
\* selector accepts (unix, Linux) is neither looked up nor read nor part of
\* the result, whatever the range of the query.
C32_OnlyDefaultOsKeys ==
    [][QueryStep =>
          LET q == queries'[Len(queries')]
          IN  (q.data_source = "pre_aggregated_store" /\ q.params.os_type = None) =>
                 /\ \A p \in DOMAIN q.lookups :
                       q.lookups[p][2] \in {OsWindows, OsLinux, OsMac}
                 /\ \A k \in OtherOsKeys :
                       /\ PlacesOf(q, k) = {}
                       /\ k \notin {q.reads[n] : n \in DOMAIN q.reads}
                       /\ k \notin CachedKeys'
                 /\ q.result = SelectSeq(q.answers, LAMBDA a : a # EmptyDict)
                 /\ Len(q.result) <=
                       Cardinality({k \in DOMAIN rollups \ OtherOsKeys :
                                       PlacesOf(q, k) # {}})
      ]_vars

\* materialize wrote a rollup for a batch whose meta_info.os_type is a tag the
\* parser selector accepts but the default list does not hold; a batch of the
\* same day with the os_type linux was materialized after it; and a
\* pre-aggregated query without an os_type returned the rollup of the second
\* batch and not that of the first
C32_Witness ==
    \E c, d \in DOMAIN tasks : \E i \in DOMAIN queries :
        /\ calls[c].ok /\ calls[d].ok
        /\ GetParser(MetaOf(c).os_type) = "UnixParser"
        /\ MetaOf(c).os_type \in {OsUnix, OsLinuxCap}
        /\ KeyOf(c) \in OtherOsKeys
        /\ rollups[KeyOf(c)] = AggregatedData(FrameOf(c))
        /\ tasks[d].outcome = "ok"
        /\ c \in tasks[d].after
        /\ KeyOf(d) = <<KeyOf(c)[1], OsLinux>>
        /\ queries[i].data_source = "pre_aggregated_store"
        /\ queries[i].params.os_type = None
        /\ queries[i].err = ""
        /\ PeriodDay(queries[i].optimized.start_time) <= KeyOf(c)[1]
        /\ KeyOf(c)[1] <= PeriodDay(queries[i].optimized.end_time)
        /\ queries[i].result = <<AggregatedData(FrameOf(d))>>
        /\ AggregatedData(FrameOf(d)) # AggregatedData(FrameOf(c))

=============================================================================
